---------------------------- MODULE Spec2Model ----------------------------
(***************************************************************************)
(* State-machine model of the NeuroSurveillance session daemon:            *)
(*   radiens_poller.py      RadiensPoller      (edge detection)            *)
(*   session_manager.py     SessionManager     (metadata, sessions)        *)
(*   frigate_controller.py  FrigateController  (recording directives)      *)
(*   daemon.py              SessionDaemon      (orchestration, export)     *)
(*                                                                         *)
(* The specifications share the variables:                                 *)
(*   SpecPoller   a RadiensPoller driven by connect()/poll() with caller-  *)
(*                supplied handlers that return or raise;                  *)
(*   SpecStore    a SessionManager driven by its public operations;        *)
(*   SpecFrigate  a FrigateController publishing directives;               *)
(*   SpecWait     one wait_for_export() call of a FrigateController;       *)
(*   SpecExport   the edge handlers and the export threads they start;     *)
(*   SpecShutdown the daemon's stop(), step by step;                       *)
(*   SpecSessions a SessionManager opening and closing sessions;           *)
(*   SpecHistory  the same, with update_export_status;                     *)
(*   SpecEdges    the started daemon's poll loop and its edge handlers;    *)
(*   SpecLoop     the same with every status query answered and the export *)
(*                threads beside the loop;                                 *)
(*   SpecRace     the store's calls statement by statement, the poll loop  *)
(*                and the API worker interleaved;                          *)
(*   SpecCameras  the poll loop and the API worker, the broker always up;  *)
(*   SpecSignal   the edge handlers statement by statement, interrupted by *)
(*                the shutdown signal;                                     *)
(*   SpecWindow   one session and the export window submitted for it;      *)
(*   Spec         the daemon: poll loop, edge handlers, export threads.    *)
(***************************************************************************)
EXTENDS Integers, Sequences, FiniteSets, TLC

VARIABLES
    \* ---- RadiensPoller (radiens_poller.py:57-61)
    client,              \* self._client is not None
    previous_state,      \* self._previous_state
    connected,           \* self._connected
    consecutive_errors,  \* self._consecutive_errors
    \* ---- observation of the poller's calls (history variables)
    lastPoll,            \* what the most recent poll() call did
    lastQueried,         \* indicator classified by the last successful status query
    lastOkCalls,         \* handler calls made by the last poll that classified
    shadowPrev,          \* _previous_state of a poller fed the same polls minus the failed ones
    shadowCalls,         \* handler calls that poller made on its last poll
    cleanRun,            \* every poll so far queried and classified On/Off, handlers returned
    \* ---- SessionManager (session_manager.py:86-93)
    pending_metadata,    \* self._pending_metadata
    active_session,      \* self._active_session
    history,             \* self._history
    sessions_dir,        \* the sidecar files in self.sessions_dir: name -> content
    \* ---- environment of the store
    now,                 \* time.time(), in ticks of 1/TicksPerSecond s
    nextId,              \* the next uuid4() value
    metaCalls,           \* set_metadata/clear_metadata calls the API has made
    \* ---- observation of the store's calls (history variable)
    explicitly_set,      \* per field: the last non-null value set_metadata was given
                         \* since construction or the last clear_metadata ("None": none)
    \* ---- FrigateController (frigate_controller.py:49-50)
    mqtt_client,         \* self._mqtt_client is not None
    mqtt_connected,      \* self._mqtt_connected
    \* ---- the command channel, and observation of set_recording
    recordings,          \* per camera: the last payload handed to the transport ("-": none)
    lastSetRecording,    \* what the most recent set_recording() call did
    \* ---- SessionDaemon (daemon.py:108, 206-217, 267-273)
    phase,               \* "constructed", "running" (self._running), "stopped", "exited"
    loop_pc,             \* _main_loop: about to "connect" or to "poll"
    exportTasks,         \* per session id: where its export thread is
    \* ---- observation of the export threads (history variable)
    statusWrites,        \* <<s, t>>: the export thread of session s wrote session t's status
    \* ---- a wait_for_export() call (frigate_controller.py:190-224)
    wait_pc,             \* "idle", at the "loop" test, about to "sleep", "returned"
    wait_clock,          \* time.time() minus its value when the call began, seconds
    wait_result,         \* the value returned ("-": none yet)
    \* ---- Frigate's export list
    export_job,          \* the requested job: "absent", "in_progress" or "complete"
    \* ---- observation of the export threads (history variable)
    exportLog,           \* per session id: what export_recording and wait_for_export
                         \* gave its thread, and the statuses the thread wrote
    \* ---- a stop() call (daemon.py:350-371)
    stop_pc,             \* "idle", or the step stop() is about to take
    stop_session,        \* its local: the session abort_session returned
    stop_runs,           \* stop() calls begun
    stopLog,             \* the calls stop() has made, in order (history variable)
    \* ---- the poll loop thread inside start_session() or end_session()
    store_pc,            \* "idle", or the statement the call is about to execute
    store_local,         \* its locals: now_utc, meta, the arguments evaluated so far
                         \* and the record its local session refers to
    \* ---- the API worker inside a request
    api_pc,              \* "idle", or the statement the request is about to execute
    api_body,            \* the JSON body of the POST it is serving
    api_snapshot,        \* what the last GET /api/session/current answered
    \* ---- observation of the store (history variables)
    committed,           \* the session records as they stood when a whole
                         \* start_session or end_session call began or returned
    pendingSeen,         \* every value the pending metadata has had
    lastCall,            \* the last call of the store's caller: its name, its
                         \* argument, what it returned, and a bit flipped by each call
    lastStopAll          \* what the most recent stop_all_recording() call did

pollerVars == <<client, previous_state, connected, consecutive_errors>>
pollerObs  == <<lastPoll, lastQueried, lastOkCalls, shadowPrev, shadowCalls, cleanRun>>
storeVars  == <<pending_metadata, active_session, history, sessions_dir, now, nextId,
                metaCalls, explicitly_set>>
frigateVars == <<mqtt_client, mqtt_connected, recordings, lastSetRecording>>
daemonVars == <<phase, loop_pc, exportTasks, statusWrites>>
waitVars == <<wait_pc, wait_clock, wait_result, export_job>>
\* the variables no operation of the poller, the store, the command channel or
\* the daemon's loop touches
stopVars == <<stop_pc, stop_session, stop_runs, stopLog>>
raceVars == <<store_pc, store_local, api_pc, api_body, api_snapshot, committed, pendingSeen>>
restVars == <<waitVars, exportLog, stopVars, raceVars, lastCall, lastStopAll>>

-----------------------------------------------------------------------------
(* Bounds *)

\* consecutive_errors is capped: failed polls stop being explored beyond it
MaxErrors == 2
\* sessions started per run (uuid4 values handed out)
MaxSessions == 2
\* the clock stops advancing here
MaxTime == 2
\* set_metadata/clear_metadata requests the API serves per run
MaxMetaCalls == 2
\* metadata requests the daemon's API worker serves per run
MaxApiCalls == 1

-----------------------------------------------------------------------------
(* RadiensPoller *)

ON      == "R_ON"
OFF     == "R_OFF"
UNKNOWN == "UNKNOWN"
RecordingState == {ON, OFF, UNKNOWN}

\* str(allego_status.recording) as the instrument may report it
RawRecording == {"R_ON", "R_OFF", "R_PAUSED"}

\* self._max_silent_errors
max_silent_errors == 5

\* poll(): rec_str -> RecordingState
Classify(rec_str) ==
    IF rec_str = "R_ON" THEN ON
    ELSE IF rec_str = "R_OFF" THEN OFF
    ELSE UNKNOWN

\* mutant of Transition: anything other than On followed by On is a start
Transition_NotOnToOn(prev, cur) ==
    IF prev # ON /\ cur = ON THEN <<"on_session_start">>
    ELSE IF prev = ON /\ cur = OFF THEN <<"on_session_end">>
    ELSE << >>

\* poll(): the handler calls the transition test makes, in order
Transition(prev, cur) ==
    IF prev = OFF /\ cur = ON THEN <<"on_session_start">>
    ELSE IF prev = ON /\ cur = OFF THEN <<"on_session_end">>
    ELSE << >>

\* mutant of AfterFailure: the failure path forgets the previous state
AfterFailure_ForgetPrevious(prev, errs) ==
    [previous_state |-> UNKNOWN, connected |-> FALSE, consecutive_errors |-> errs + 1]

\* poll(): the except branch, entered with the error count errs
AfterFailure(prev, errs) ==
    [previous_state |-> prev, connected |-> FALSE, consecutive_errors |-> errs + 1]

\* poll(): whether the except branch logs the failure (first, then every Nth)
LogsFailure(errs) == errs = 1 \/ errs % max_silent_errors = 0

\* poll(): the poller after a poll whose query returned rec_str; hres is the
\* outcome of the handler the transition test calls ("ok" or "raise").  The
\* handler runs inside the try block, so its exception enters the except
\* branch after connected/consecutive_errors were set by the success path.
AfterQuery(prev, rec_str, hres) ==
    LET cur   == Classify(rec_str)
        calls == Transition(prev, cur)
    IN  IF calls # << >> /\ hres = "raise"
        THEN AfterFailure(prev, 0)
        ELSE [previous_state |-> cur, connected |-> TRUE, consecutive_errors |-> 0]

\* poll(): what the call hands back to its caller
Returned(prev, rec_str, hres) ==
    IF Transition(prev, Classify(rec_str)) # << >> /\ hres = "raise"
    THEN "disconnected" ELSE "connected"

\* lastPoll: kind of poll; cur the indicator it classified; prev/errsBefore the
\* poller's _previous_state/_consecutive_errors when it was called; seen the
\* indicator the status query before it returned; calls the handlers it
\* invoked; hres how the handler ended; returned what the caller got; after
\* the poller's fields when it returned
NoPoll == [kind |-> "none", cur |-> "-", prev |-> UNKNOWN, seen |-> "None",
           calls |-> << >>, hres |-> "-", returned |-> "-", errsBefore |-> 0,
           after |-> [previous_state |-> UNKNOWN, connected |-> FALSE,
                      consecutive_errors |-> 0]]

PollerInit ==
    /\ client = FALSE
    /\ previous_state = UNKNOWN
    /\ connected = FALSE
    /\ consecutive_errors = 0

PollerObsInit ==
    /\ lastPoll = NoPoll
    /\ lastQueried = "None"
    /\ lastOkCalls = << >>
    /\ shadowPrev = UNKNOWN
    /\ shadowCalls = << >>
    /\ cleanRun = TRUE

\* connect(): "ok" the client is built and answers; "no_client" the import or
\* the constructor raises; "no_status" the client is built, its status query raises
Connect(outcome) ==
    /\ client' = (client \/ outcome # "no_client")
    /\ connected' = (outcome = "ok")
    /\ consecutive_errors' = IF outcome = "ok" THEN 0 ELSE consecutive_errors
    /\ UNCHANGED previous_state

\* poll() before connect() ever built a client: returns a disconnected snapshot
PollNoClient ==
    /\ ~client
    /\ UNCHANGED pollerVars

PollNoClientObs ==
    /\ lastPoll' = [NoPoll EXCEPT !.kind = "no_client", !.prev = previous_state,
                       !.seen = lastQueried, !.returned = "disconnected",
                       !.errsBefore = consecutive_errors,
                       !.after = [previous_state |-> previous_state,
                                  connected |-> connected,
                                  consecutive_errors |-> consecutive_errors]]
    /\ cleanRun' = FALSE
    /\ UNCHANGED <<lastQueried, lastOkCalls, shadowPrev, shadowCalls>>

\* the poller after a poll whose get_status() raises ("query_fail"), or whose
\* reply cannot be read ("parse_fail": raised after the success path reset the
\* error count)
FailedPoll(kind) ==
    AfterFailure(previous_state, IF kind = "query_fail" THEN consecutive_errors ELSE 0)

PollFail(kind) ==
    /\ client
    /\ consecutive_errors < MaxErrors
    /\ previous_state' = FailedPoll(kind).previous_state
    /\ connected' = FailedPoll(kind).connected
    /\ consecutive_errors' = FailedPoll(kind).consecutive_errors
    /\ UNCHANGED client

PollFailObs(kind) ==
    /\ lastPoll' = [NoPoll EXCEPT !.kind = kind, !.prev = previous_state,
                       !.seen = lastQueried, !.returned = "disconnected",
                       !.errsBefore = consecutive_errors, !.after = FailedPoll(kind)]
    /\ cleanRun' = FALSE
    /\ UNCHANGED <<lastQueried, lastOkCalls, shadowPrev, shadowCalls>>

\* poll() whose get_status() returns rec_str, with a handler that returns or raises
PollOk(rec_str, hres) ==
    /\ client
    /\ Transition(previous_state, Classify(rec_str)) = << >> => hres = "ok"
    /\ previous_state' = AfterQuery(previous_state, rec_str, hres).previous_state
    /\ connected' = AfterQuery(previous_state, rec_str, hres).connected
    /\ consecutive_errors' = AfterQuery(previous_state, rec_str, hres).consecutive_errors
    /\ UNCHANGED client

PollOkObs(rec_str, hres) ==
    LET cur   == Classify(rec_str)
        calls == Transition(previous_state, cur)
    IN  /\ lastPoll' = [kind |-> "ok", cur |-> cur, prev |-> previous_state,
                        seen |-> lastQueried, calls |-> calls,
                        hres |-> IF calls = << >> THEN "-" ELSE hres,
                        returned |-> Returned(previous_state, rec_str, hres),
                        errsBefore |-> consecutive_errors,
                        after |-> AfterQuery(previous_state, rec_str, hres)]
        /\ lastQueried' = cur
        /\ lastOkCalls' = calls
        /\ shadowPrev' = AfterQuery(shadowPrev, rec_str, hres).previous_state
        /\ shadowCalls' = Transition(shadowPrev, cur)
        /\ cleanRun' = (cleanRun /\ cur # UNKNOWN /\ (calls = << >> \/ hres = "ok"))

-----------------------------------------------------------------------------
(* SessionManager *)

\* SessionMetadata field defaults
DefaultName == "unknown"

\* values the API hands to set_metadata; "None" is an argument left out
MouseIds       == {"unknown", "M 1"}
RecordingTypes == {"unknown", "basal"}
UserNames      == {"unknown", "andrea"}
Chambers       == {0, 1}
None           == "None"
NoChamber      == -1

\* SessionMetadata()
DefaultMetadata ==
    [mouse_id |-> DefaultName, recording_type |-> DefaultName,
     user_name |-> DefaultName, chamber |-> 0]

\* mutant of is_default: the operator name is not looked at
is_default_IgnoresUser(meta) ==
    /\ meta.mouse_id = DefaultName
    /\ meta.recording_type = DefaultName

\* SessionMetadata.is_default
is_default(meta) ==
    /\ meta.mouse_id = DefaultName
    /\ meta.recording_type = DefaultName
    /\ meta.user_name = DefaultName

\* self.cameras (the constructor's default mapping), keyed by chamber number
cameras == [ch \in {0, 1} |-> IF ch = 0 THEN "pi_cam_0" ELSE "pi_cam_1"]

\* start_session: self.cameras.get(camera_key, f"pi_cam_{meta.chamber}")
CameraOf(ch) == IF ch \in DOMAIN cameras THEN cameras[ch] ELSE "pi_cam_" \o ToString(ch)

NoSession == [session_id |-> 0]

\* strftime("%y%m%d%H%M") of the start time: the minute it falls in
SecondsPerMinute == 60
\* the resolution of the model's clock: 0.04 s
TicksPerSecond == 25
Minute(t) == t \div (SecondsPerMinute * TicksPerSecond)

\* mutant of RoundedTenths: the duration is cut to 0.1 s, not rounded
RoundedTenths_Floor(ticks) == (10 * ticks) \div TicksPerSecond

\* round(now_utc - session.start_time_utc, 1), in tenths of a second: the
\* multiple of 0.1 s nearest to the span (a span of whole ticks is never
\* halfway between two)
RoundedTenths(ticks) == (20 * ticks + TicksPerSecond) \div (2 * TicksPerSecond)

\* str.replace(" ", "_") on the names of the model's domains
Underscored(s) == IF s = "M 1" THEN "M_1" ELSE s

\* _generate_filename: f"{timestamp}_{mouse}_{rec_type}", the name before ".mp4"
FilenameStem(session) ==
    ToString(Minute(session.start_time_utc)) \o "_" \o Underscored(session.mouse_id)
        \o "_" \o Underscored(session.recording_type)

\* _generate_filename: f"{timestamp}_{mouse}_{rec_type}.mp4"
GenerateFilename(session) == FilenameStem(session) \o ".mp4"

\* SessionRecord(...) as start_session builds it.  start_time_local,
\* end_time_local and the radiens_xdat_* fields are written once from the
\* same inputs and read by no operation; they are left out of the record.
NewSession(id, t, meta) ==
    [session_id |-> id, start_time_utc |-> t, end_time_utc |-> 0,
     duration_seconds |-> 0, mouse_id |-> meta.mouse_id,
     recording_type |-> meta.recording_type, user_name |-> meta.user_name,
     chamber |-> meta.chamber, camera |-> CameraOf(meta.chamber),
     video_filename |-> "", export_status |-> "pending",
     nas_transfer_status |-> "skipped"]

\* end_session / abort_session: the stamping of the closing session;
\* duration_seconds is held in tenths of a second
Closed(session, t) ==
    LET stamped == [session EXCEPT !.end_time_utc = t,
                       !.duration_seconds = RoundedTenths(t - session.start_time_utc)]
    IN  [stamped EXCEPT !.video_filename = GenerateFilename(stamped)]

\* _write_session_json: the name of the session's sidecar file, the video
\* filename up to its last "." (the one of ".mp4") or else the session id,
\* followed by "_session.json"
SidecarName(session) ==
    (IF session.video_filename # "" THEN FilenameStem(session)
     ELSE ToString(session.session_id)) \o "_session.json"

\* _write_session_json: open(json_path, "w") and json.dump(asdict(session)):
\* the file of that name is created or replaced.  The write is taken to succeed.
Written(dir, session) ==
    [name \in DOMAIN dir \cup {SidecarName(session)} |->
        IF name = SidecarName(session) THEN session ELSE dir[name]]

\* _load_history of a store constructed on the directory: one record per
\* *_session.json file (appended in the order of the file names)
LoadHistory(dir) == {dir[name] : name \in DOMAIN dir}

NothingSet == [f \in {"mouse_id", "recording_type", "user_name"} |-> None]

StoreInit ==
    /\ pending_metadata = DefaultMetadata
    /\ active_session = NoSession
    /\ history = << >>
    /\ sessions_dir = << >>
    /\ now = 0
    /\ nextId = 1
    /\ metaCalls = 0
    /\ explicitly_set = NothingSet

\* set_metadata(mouse_id, recording_type, user_name, chamber): the merged metadata
SetMetadata(meta, m, r, u, c) ==
    [mouse_id       |-> IF m # None THEN m ELSE meta.mouse_id,
     recording_type |-> IF r # None THEN r ELSE meta.recording_type,
     user_name      |-> IF u # None THEN u ELSE meta.user_name,
     chamber        |-> IF c # NoChamber THEN c ELSE meta.chamber]

\* the non-null names a set_metadata call was given, noted over the earlier ones
Noted(noted, m, r, u) ==
    [mouse_id       |-> IF m # None THEN m ELSE noted.mouse_id,
     recording_type |-> IF r # None THEN r ELSE noted.recording_type,
     user_name      |-> IF u # None THEN u ELSE noted.user_name]

\* clear_metadata(), also as the last step of end_session and abort_session
ClearedMetadata ==
    /\ pending_metadata' = DefaultMetadata
    /\ explicitly_set' = NothingSet

\* start_session(): no test of the active slot; the pending metadata is read, not reset
DoStartSession ==
    /\ nextId <= MaxSessions
    /\ active_session' = NewSession(nextId, now, pending_metadata)
    /\ nextId' = nextId + 1
    /\ UNCHANGED <<pending_metadata, history, now, metaCalls, explicitly_set, sessions_dir>>

\* end_session() with a session active
DoEndSession ==
    /\ active_session # NoSession
    /\ sessions_dir' = Written(sessions_dir, Closed(active_session, now))
    /\ history' = Append(history, Closed(active_session, now))
    /\ active_session' = NoSession
    /\ ClearedMetadata
    /\ UNCHANGED <<now, nextId, metaCalls>>

\* mutant of DoCloseNothing: the pending metadata is cleared all the same
DoCloseNothing_ClearsMetadata ==
    /\ active_session = NoSession
    /\ ClearedMetadata
    /\ UNCHANGED <<active_session, history, now, nextId, metaCalls, sessions_dir>>

\* end_session() / abort_session() with no session active: returns None
DoCloseNothing ==
    /\ active_session = NoSession
    /\ UNCHANGED storeVars

\* mutant of DoAbortSession: the session is closed as end_session closes it
DoAbortSession_AsEnd(reason) == DoEndSession

\* mutant of DoAbortSession: the pending metadata is left as it is
DoAbortSession_KeepsMetadata(reason) ==
    /\ active_session # NoSession
    /\ sessions_dir' = Written(sessions_dir,
          [Closed(active_session, now) EXCEPT !.export_status = "aborted: " \o reason])
    /\ history' = Append(history,
          [Closed(active_session, now) EXCEPT !.export_status = "aborted: " \o reason])
    /\ active_session' = NoSession
    /\ UNCHANGED <<pending_metadata, explicitly_set, now, nextId, metaCalls>>

\* abort_session(reason) with a session active
DoAbortSession(reason) ==
    /\ active_session # NoSession
    /\ sessions_dir' = Written(sessions_dir,
          [Closed(active_session, now) EXCEPT !.export_status = "aborted: " \o reason])
    /\ history' = Append(history,
          [Closed(active_session, now) EXCEPT !.export_status = "aborted: " \o reason])
    /\ active_session' = NoSession
    /\ ClearedMetadata
    /\ UNCHANGED <<now, nextId, metaCalls>>

\* mutant of DoUpdateExportStatus: the first history entry gets the status
DoUpdateExportStatus_First(status) ==
    /\ history' = IF history = << >> THEN history
                  ELSE [history EXCEPT ![1].export_status = status]
    /\ sessions_dir' = IF history = << >> THEN sessions_dir
                       ELSE Written(sessions_dir, history'[1])
    /\ UNCHANGED <<pending_metadata, active_session, now, nextId, metaCalls, explicitly_set>>

\* mutant of DoUpdateExportStatus: the pending metadata is cleared, as the
\* closing calls clear it
DoUpdateExportStatus_ClearsMetadata(status) ==
    /\ history' = IF history = << >> THEN history
                  ELSE [history EXCEPT ![Len(history)].export_status = status]
    /\ sessions_dir' = IF history = << >> THEN sessions_dir
                       ELSE Written(sessions_dir, history'[Len(history')])
    /\ ClearedMetadata
    /\ UNCHANGED <<active_session, now, nextId, metaCalls>>

\* update_export_status(status): the last history entry, whichever session it
\* is, gets the status and its sidecar file is written again
DoUpdateExportStatus(status) ==
    /\ history' = IF history = << >> THEN history
                  ELSE [history EXCEPT ![Len(history)].export_status = status]
    /\ sessions_dir' = IF history = << >> THEN sessions_dir
                       ELSE Written(sessions_dir, history'[Len(history')])
    /\ UNCHANGED <<pending_metadata, active_session, now, nextId, metaCalls, explicitly_set>>

\* time passes
Tick ==
    /\ now < MaxTime
    /\ now' = now + 1
    /\ UNCHANGED <<pending_metadata, active_session, history, sessions_dir, nextId,
                   metaCalls, explicitly_set>>

-----------------------------------------------------------------------------
(* FrigateController *)

\* the configured camera ids: self.cameras.values()
CameraIds == {cameras[ch] : ch \in DOMAIN cameras}

\* what the transport does with a publish: "acked" the broker acknowledges
\* within the wait; "timeout" wait_for_publish(timeout=5.0) returns with the
\* message still unacknowledged (it returns normally); "error" publish or
\* wait_for_publish raises
PublishOutcomes == {"acked", "timeout", "error"}

Payload(enabled) == IF enabled THEN "ON" ELSE "OFF"

\* mutant of SetRecordingResult: the connection test is dropped
SetRecordingResult_NoGuard(hasClient, isConnected, outcome) ==
    [published |-> outcome # "error", returned |-> outcome # "error"]

\* set_recording: whether the directive reached the transport, and the value
\* returned.  The try block returns True whenever nothing raised; the result
\* of the wait is not looked at.
SetRecordingResult(hasClient, isConnected, outcome) ==
    IF ~isConnected \/ ~hasClient
    THEN [published |-> FALSE, returned |-> FALSE]
    ELSE [published |-> outcome # "error", returned |-> outcome # "error"]

NoSetRecording == [camera |-> "-", payload |-> "-", outcome |-> "-",
                   wasConnected |-> FALSE, published |-> FALSE, returned |-> FALSE]

FrigateInit ==
    /\ mqtt_client = FALSE
    /\ mqtt_connected = FALSE
    /\ recordings = [c \in CameraIds |-> "-"]
    /\ lastSetRecording = NoSetRecording

\* connect_mqtt(): "ok" the connection callback arrives within 5 s; "timeout"
\* the client is built and started but no callback arrives; "error" raises
\* (the client object is assigned before connect() can raise)
DoConnectMqtt(outcome) ==
    /\ mqtt_client' = TRUE
    /\ mqtt_connected' = (mqtt_connected \/ outcome = "ok")
    /\ UNCHANGED recordings

\* disconnect_mqtt()
DoDisconnectMqtt ==
    /\ mqtt_connected' = IF mqtt_client THEN FALSE ELSE mqtt_connected
    /\ UNCHANGED <<mqtt_client, recordings>>

\* _on_connect / _on_disconnect, called by the transport's network thread
DoOnConnect(reason_code) ==
    /\ mqtt_client
    /\ mqtt_connected' = (mqtt_connected \/ reason_code = 0)
    /\ UNCHANGED <<mqtt_client, recordings>>

DoOnDisconnect ==
    /\ mqtt_client
    /\ mqtt_connected' = FALSE
    /\ UNCHANGED <<mqtt_client, recordings>>

\* the topics after set_recording(camera_id, enabled)
Published(recs, camera_id, enabled, outcome) ==
    IF SetRecordingResult(mqtt_client, mqtt_connected, outcome).published
    THEN [c \in DOMAIN recs \cup {camera_id} |->
             IF c = camera_id THEN Payload(enabled) ELSE recs[c]]
    ELSE recs

\* set_recording(camera_id, enabled)
DoSetRecording(camera_id, enabled, outcome) ==
    /\ recordings' = Published(recordings, camera_id, enabled, outcome)
    /\ UNCHANGED <<mqtt_client, mqtt_connected>>

SetRecordingObs(camera_id, enabled, outcome) ==
    lastSetRecording' =
        [camera |-> camera_id, payload |-> Payload(enabled),
         outcome |-> IF mqtt_client /\ mqtt_connected THEN outcome ELSE "-",
         wasConnected |-> mqtt_client /\ mqtt_connected,
         published |-> SetRecordingResult(mqtt_client, mqtt_connected, outcome).published,
         returned |-> SetRecordingResult(mqtt_client, mqtt_connected, outcome).returned]

\* stop_all_recording(): set_recording(camera_id, False) for every configured
\* camera, each publish with its own outcome; the topics afterwards
StoppedAllWhen(hasClient, isConnected, recs, outcomes) ==
    [c \in DOMAIN recs |->
        IF c \in CameraIds /\ SetRecordingResult(hasClient, isConnected,
                                                 outcomes[c]).published
        THEN "OFF" ELSE recs[c]]

StoppedAll(recs, outcomes) == StoppedAllWhen(mqtt_client, mqtt_connected, recs, outcomes)

\* self.cameras.items() iterates in insertion order
CameraOrder == <<cameras[0], cameras[1]>>

\* stop_all_recording(): the loop from the i-th camera on, with success and
\* the calls made so far; a failed call clears success and the loop goes on
RECURSIVE StopAllLoop(_, _, _, _, _, _)
StopAllLoop(i, success, attempted, hasClient, isConnected, outcomes) ==
    IF i > Len(CameraOrder)
    THEN [attempted |-> attempted, returned |-> success]
    ELSE LET ok == SetRecordingResult(hasClient, isConnected,
                                      outcomes[CameraOrder[i]]).returned
         IN  StopAllLoop(i + 1, success /\ ok,
                         Append(attempted, [camera |-> CameraOrder[i],
                                            payload |-> Payload(FALSE), ok |-> ok]),
                         hasClient, isConnected, outcomes)

\* mutant of StopAllRecording: the loop stops at the first failed call
StopAllRecording_ShortCircuit(hasClient, isConnected, outcomes) ==
    LET whole == StopAllLoop(1, TRUE, << >>, hasClient, isConnected, outcomes)
        failed == {i \in 1..Len(whole.attempted) : ~whole.attempted[i].ok}
        last == IF failed = {} THEN Len(whole.attempted)
                ELSE CHOOSE i \in failed : \A j \in failed : i <= j
    IN  [attempted |-> SubSeq(whole.attempted, 1, last), returned |-> whole.returned]

\* stop_all_recording(): the calls it makes and the value it returns
StopAllRecording(hasClient, isConnected, outcomes) ==
    StopAllLoop(1, TRUE, << >>, hasClient, isConnected, outcomes)

NoStopAll == [called |-> FALSE, wasConnected |-> FALSE,
              outcomes |-> [c \in CameraIds |-> "-"],
              attempted |-> << >>, returned |-> FALSE]

\* stop_all_recording() as its caller sees it
StopAllObs(outcomes) ==
    lastStopAll' =
        [called |-> TRUE, wasConnected |-> mqtt_client /\ mqtt_connected,
         outcomes |-> outcomes,
         attempted |-> StopAllRecording(mqtt_client, mqtt_connected, outcomes).attempted,
         returned |-> StopAllRecording(mqtt_client, mqtt_connected, outcomes).returned]

-----------------------------------------------------------------------------
(* FrigateController.wait_for_export *)

\* seconds between export status checks, and the ceiling of the wait
EXPORT_POLL_INTERVAL == 2
EXPORT_TIMEOUT == 300
\* requests.get(url, timeout=10): a list request lasts up to its timeout
ListRequestTimeout == 10
RequestSeconds == {0, 1, ListRequestTimeout}

\* the job as Frigate's export list shows it: not listed, listed while the
\* clip is still being written, listed and finished
ExportJobStates == {"absent", "in_progress", "complete"}

NoResult == "-"
TimedOut == "None"

WaitInit ==
    /\ wait_pc = "idle"
    /\ wait_clock = 0
    /\ wait_result = NoResult
    /\ export_job = "absent"

\* for export in exports: if eid == export_id: return export.  The entry is
\* returned when its id matches, whatever state it is in.
ListedExport(job) == job # "absent"

\* mutant of Expired: the wait gives up one poll interval early
Expired_Early(clock) == clock >= EXPORT_TIMEOUT - EXPORT_POLL_INTERVAL

\* the negation of the loop test: while time.time() < deadline
Expired(clock) == clock >= EXPORT_TIMEOUT

\* wait_for_export(export_id) is called: deadline = time.time() + EXPORT_TIMEOUT
WaitCall ==
    /\ wait_pc = "idle"
    /\ wait_pc' = "loop"
    /\ wait_clock' = 0
    /\ UNCHANGED <<wait_result, export_job>>

\* the loop test fails: return None
WaitTimeout ==
    /\ wait_pc = "loop"
    /\ Expired(wait_clock)
    /\ wait_pc' = "returned"
    /\ wait_result' = TimedOut
    /\ UNCHANGED <<wait_clock, export_job>>

\* one list request that answers with the job in the list: return export
WaitFound(seconds) ==
    /\ wait_pc = "loop"
    /\ ~Expired(wait_clock)
    /\ ListedExport(export_job)
    /\ wait_clock' = wait_clock + seconds
    /\ wait_pc' = "returned"
    /\ wait_result' = export_job
    /\ UNCHANGED export_job

\* one list request that answers without the job
WaitNotListed(seconds) ==
    /\ wait_pc = "loop"
    /\ ~Expired(wait_clock)
    /\ ~ListedExport(export_job)
    /\ wait_clock' = wait_clock + seconds
    /\ wait_pc' = "sleep"
    /\ UNCHANGED <<wait_result, export_job>>

\* one list request that fails (connection, HTTP status, body): except Exception
WaitRequestFailed(seconds) ==
    /\ wait_pc = "loop"
    /\ ~Expired(wait_clock)
    /\ wait_clock' = wait_clock + seconds
    /\ wait_pc' = "sleep"
    /\ UNCHANGED <<wait_result, export_job>>

\* time.sleep(EXPORT_POLL_INTERVAL)
WaitSleep ==
    /\ wait_pc = "sleep"
    /\ wait_clock' = wait_clock + EXPORT_POLL_INTERVAL
    /\ wait_pc' = "loop"
    /\ UNCHANGED <<wait_result, export_job>>

\* Frigate lists the job, then finishes it
ExportJobProgress ==
    /\ export_job # "complete"
    /\ export_job' = IF export_job = "absent" THEN "in_progress" ELSE "complete"
    /\ UNCHANGED <<wait_pc, wait_clock, wait_result>>

-----------------------------------------------------------------------------
(* SessionDaemon *)

SessionIds == 1..MaxSessions

NoExportLog == [response |-> "-", request |-> "-", wait |-> "-", writes |-> << >>,
                window |-> << >>]

DaemonInit ==
    /\ phase = "constructed"
    /\ loop_pc = "connect"
    /\ exportTasks = [id \in SessionIds |-> "none"]
    /\ statusWrites = {}
    /\ exportLog = [id \in SessionIds |-> NoExportLog]

-----------------------------------------------------------------------------
(* SessionDaemon.stop: its state *)

\* stop() calls explored per run
MaxStops == 2

StopInit ==
    /\ stop_pc = "idle"
    /\ stop_session = NoSession
    /\ stop_runs = 0
    /\ stopLog = << >>

-----------------------------------------------------------------------------
(* The store's calls statement by statement: their state *)

NoLocal == [t |-> 0, live |-> TRUE, frozen |-> DefaultMetadata, camera_chamber |-> 0,
            mouse_id |-> "-", recording_type |-> "-", user_name |-> "-",
            chamber |-> NoChamber, session |-> NoSession]

NoBody == [mouse_id |-> None, recording_type |-> None, user_name |-> None,
           chamber |-> NoChamber]

\* GET /api/session/current has not answered yet; it answered with an error
NotAsked == [session_id |-> -2]
ApiFailed == [session_id |-> -1]

NoCall == [op |-> "-", reason |-> "-", returned |-> NoSession, flip |-> FALSE]

\* the edge handler poll() called last
Handled(op) == lastCall' = [NoCall EXCEPT !.op = op]

RaceInit ==
    /\ store_pc = "idle"
    /\ store_local = NoLocal
    /\ api_pc = "idle"
    /\ api_body = NoBody
    /\ api_snapshot = NotAsked
    /\ committed = {}
    /\ pendingSeen = {DefaultMetadata}

-----------------------------------------------------------------------------
(* SpecPoller: a RadiensPoller and its caller *)

HandlerOutcomes == {"ok", "raise"}

vars == <<pollerVars, pollerObs, storeVars, frigateVars, daemonVars, restVars>>

InitAll ==
    /\ PollerInit /\ PollerObsInit
    /\ StoreInit
    /\ FrigateInit
    /\ DaemonInit
    /\ WaitInit
    /\ StopInit
    /\ RaceInit
    /\ lastCall = NoCall
    /\ lastStopAll = NoStopAll

ConnectOutcomes == {"ok", "no_client", "no_status"}
PollFailures == {"query_fail", "parse_fail"}

PollerConnect ==
    /\ \E outcome \in ConnectOutcomes : Connect(outcome)
    /\ UNCHANGED <<pollerObs, storeVars, frigateVars, daemonVars>>
    /\ UNCHANGED restVars

PollerPollNoClient ==
    /\ PollNoClient /\ PollNoClientObs
    /\ UNCHANGED <<storeVars, frigateVars, daemonVars>>
    /\ UNCHANGED restVars

PollerPollFail ==
    /\ \E kind \in PollFailures : PollFail(kind) /\ PollFailObs(kind)
    /\ UNCHANGED <<storeVars, frigateVars, daemonVars>>
    /\ UNCHANGED restVars

PollerPollOk ==
    /\ \E rec_str \in RawRecording, hres \in HandlerOutcomes :
          PollOk(rec_str, hres) /\ PollOkObs(rec_str, hres)
    /\ UNCHANGED <<storeVars, frigateVars, daemonVars>>
    /\ UNCHANGED restVars

NextPoller ==
    \/ PollerConnect
    \/ PollerPollNoClient
    \/ PollerPollFail
    \/ PollerPollOk

SpecPoller == InitAll /\ [][NextPoller]_vars

-----------------------------------------------------------------------------
(* SpecStore: a SessionManager and its callers *)

StoreSetMetadata ==
    /\ metaCalls < MaxMetaCalls
    /\ \E m \in MouseIds \cup {None}, r \in RecordingTypes \cup {None},
          u \in UserNames \cup {None}, c \in Chambers \cup {NoChamber} :
            /\ pending_metadata' = SetMetadata(pending_metadata, m, r, u, c)
            /\ explicitly_set' = Noted(explicitly_set, m, r, u)
    /\ metaCalls' = metaCalls + 1
    /\ UNCHANGED <<active_session, history, now, nextId, sessions_dir>>
    /\ UNCHANGED <<pollerVars, pollerObs, frigateVars, daemonVars>>
    /\ UNCHANGED restVars

StoreClearMetadata ==
    /\ metaCalls < MaxMetaCalls
    /\ ClearedMetadata
    /\ metaCalls' = metaCalls + 1
    /\ UNCHANGED <<active_session, history, now, nextId, sessions_dir>>
    /\ UNCHANGED <<pollerVars, pollerObs, frigateVars, daemonVars>>
    /\ UNCHANGED restVars

StoreStartSession ==
    /\ DoStartSession
    /\ UNCHANGED <<pollerVars, pollerObs, frigateVars, daemonVars>>
    /\ UNCHANGED restVars

StoreEndSession ==
    /\ DoEndSession \/ DoCloseNothing
    /\ UNCHANGED <<pollerVars, pollerObs, frigateVars, daemonVars>>
    /\ UNCHANGED restVars

StoreAbortSession ==
    /\ DoAbortSession("daemon shutdown") \/ DoCloseNothing
    /\ UNCHANGED <<pollerVars, pollerObs, frigateVars, daemonVars>>
    /\ UNCHANGED restVars

ExportStatuses == {"completed", "failed: export request rejected", "failed: export timed out"}

StoreUpdateExportStatus ==
    /\ \E status \in ExportStatuses : DoUpdateExportStatus(status)
    /\ UNCHANGED <<pollerVars, pollerObs, frigateVars, daemonVars>>
    /\ UNCHANGED restVars

StoreTick ==
    /\ Tick
    /\ UNCHANGED <<pollerVars, pollerObs, frigateVars, daemonVars>>
    /\ UNCHANGED restVars

NextStore ==
    \/ StoreSetMetadata
    \/ StoreClearMetadata
    \/ StoreStartSession
    \/ StoreEndSession
    \/ StoreAbortSession
    \/ StoreUpdateExportStatus
    \/ StoreTick

SpecStore == InitAll /\ [][NextStore]_vars

\* the operations that read or write the pending metadata
NextMetadata ==
    \/ StoreSetMetadata
    \/ StoreClearMetadata
    \/ StoreStartSession
    \/ StoreEndSession
    \/ StoreAbortSession

SpecMetadata == InitAll /\ [][NextMetadata]_vars

-----------------------------------------------------------------------------
(* SpecFrigate: a FrigateController, its transport and its callers *)

FrigateConnect ==
    /\ \E outcome \in {"ok", "timeout", "error"} : DoConnectMqtt(outcome)
    /\ UNCHANGED lastSetRecording
    /\ UNCHANGED <<pollerVars, pollerObs, storeVars, daemonVars>>
    /\ UNCHANGED restVars

FrigateDisconnect ==
    /\ DoDisconnectMqtt
    /\ UNCHANGED lastSetRecording
    /\ UNCHANGED <<pollerVars, pollerObs, storeVars, daemonVars>>
    /\ UNCHANGED restVars

FrigateOnConnect ==
    /\ \E reason_code \in {0, 5} : DoOnConnect(reason_code)
    /\ UNCHANGED lastSetRecording
    /\ UNCHANGED <<pollerVars, pollerObs, storeVars, daemonVars>>
    /\ UNCHANGED restVars

FrigateOnDisconnect ==
    /\ DoOnDisconnect
    /\ UNCHANGED lastSetRecording
    /\ UNCHANGED <<pollerVars, pollerObs, storeVars, daemonVars>>
    /\ UNCHANGED restVars

FrigateSetRecording ==
    /\ \E camera_id \in CameraIds, enabled \in BOOLEAN, outcome \in PublishOutcomes :
          DoSetRecording(camera_id, enabled, outcome)
          /\ SetRecordingObs(camera_id, enabled, outcome)
    /\ UNCHANGED <<pollerVars, pollerObs, storeVars, daemonVars>>
    /\ UNCHANGED restVars

FrigateStopAll ==
    /\ \E outcomes \in [CameraIds -> PublishOutcomes] :
          /\ recordings' = StoppedAll(recordings, outcomes)
          /\ StopAllObs(outcomes)
    /\ UNCHANGED <<mqtt_client, mqtt_connected, lastSetRecording>>
    /\ UNCHANGED <<pollerVars, pollerObs, storeVars, daemonVars>>
    /\ UNCHANGED <<waitVars, exportLog, stopVars, raceVars, lastCall>>

NextFrigate ==
    \/ FrigateConnect
    \/ FrigateDisconnect
    \/ FrigateOnConnect
    \/ FrigateOnDisconnect
    \/ FrigateSetRecording
    \/ FrigateStopAll

SpecFrigate == InitAll /\ [][NextFrigate]_vars

-----------------------------------------------------------------------------
(* SpecWait: one wait_for_export() call and Frigate working on the job.  The *)
(* calling thread is scheduled fairly; Frigate need not make progress.       *)

allButWait == <<pollerVars, pollerObs, storeVars, frigateVars, daemonVars, exportLog,
                stopVars, raceVars, lastCall, lastStopAll>>

WaitBegin == WaitCall /\ UNCHANGED allButWait
WaitExpire == WaitTimeout /\ UNCHANGED allButWait
WaitReturnExport == (\E seconds \in RequestSeconds : WaitFound(seconds)) /\ UNCHANGED allButWait
WaitListWithout == (\E seconds \in RequestSeconds : WaitNotListed(seconds)) /\ UNCHANGED allButWait
WaitListFailed == (\E seconds \in RequestSeconds : WaitRequestFailed(seconds)) /\ UNCHANGED allButWait
WaitSleeps == WaitSleep /\ UNCHANGED allButWait
FrigateWorks == ExportJobProgress /\ UNCHANGED allButWait

WaitThread ==
    \/ WaitBegin
    \/ WaitExpire
    \/ WaitReturnExport
    \/ WaitListWithout
    \/ WaitListFailed
    \/ WaitSleeps

NextWait ==
    \/ WaitBegin
    \/ WaitExpire
    \/ WaitReturnExport
    \/ WaitListWithout
    \/ WaitListFailed
    \/ WaitSleeps
    \/ FrigateWorks

SpecWait == InitAll /\ [][NextWait]_vars /\ WF_vars(WaitThread)

-----------------------------------------------------------------------------
(* Spec: the daemon.  The poll loop, the API worker, the transport's network *)
(* thread and one export thread per closed session run concurrently.  The    *)
(* clock stands still: no step of the daemon reads a time stamp back.  The   *)
(* daemon looks at no publish result but the one of the start handler, which *)
(* it only logs, so a publish here is delivered ("acked") or not ("error").  *)

Delivery == {"acked", "error"}

\* request bodies the API worker receives on POST /api/session/metadata
ApiBodies ==
    {[mouse_id |-> "M 1", recording_type |-> "basal", user_name |-> None, chamber |-> 1],
     [mouse_id |-> None, recording_type |-> None, user_name |-> "andrea",
      chamber |-> NoChamber]}

\* start(): connect_mqtt() or exit; stop_all_recording(); poller.connect()
DaemonStart ==
    /\ phase = "constructed"
    /\ \E mqtt \in {"ok", "timeout", "error"} :
          /\ DoConnectMqtt(mqtt)
          /\ IF mqtt = "ok"
             THEN /\ phase' = "running"
                  /\ \E outcomes \in [CameraIds -> Delivery] :
                        recordings' = StoppedAllWhen(TRUE, TRUE, recordings, outcomes)
                  /\ \E outcome \in ConnectOutcomes : Connect(outcome)
             ELSE /\ phase' = "exited"
                  /\ UNCHANGED pollerVars
    /\ UNCHANGED <<pollerObs, storeVars, lastSetRecording, loop_pc, exportTasks,
                   statusWrites>>
    /\ UNCHANGED restVars

\* _main_loop: if not self.poller.connected: self.poller.connect()
LoopConnect ==
    /\ phase = "running" /\ loop_pc = "connect"
    /\ IF connected THEN UNCHANGED pollerVars
       ELSE \E outcome \in ConnectOutcomes : Connect(outcome)
    /\ loop_pc' = "poll"
    /\ UNCHANGED <<pollerObs, storeVars, frigateVars, phase, exportTasks, statusWrites>>
    /\ UNCHANGED restVars

\* _main_loop: self.poller.poll(), no client yet
LoopPollNoClient ==
    /\ phase = "running" /\ loop_pc = "poll"
    /\ PollNoClient
    /\ loop_pc' = "connect"
    /\ UNCHANGED <<pollerObs, storeVars, frigateVars, phase, exportTasks, statusWrites>>
    /\ UNCHANGED restVars

\* _main_loop: self.poller.poll(), the status query fails
LoopPollFail ==
    /\ phase = "running" /\ loop_pc = "poll"
    /\ \E kind \in PollFailures : PollFail(kind)
    /\ loop_pc' = "connect"
    /\ UNCHANGED <<pollerObs, storeVars, frigateVars, phase, exportTasks, statusWrites>>
    /\ UNCHANGED restVars

\* _main_loop: self.poller.poll(), no transition
LoopPollQuiet ==
    /\ phase = "running" /\ loop_pc = "poll"
    /\ \E rec_str \in RawRecording :
          /\ Transition(previous_state, Classify(rec_str)) = << >>
          /\ PollOk(rec_str, "ok")
    /\ loop_pc' = "connect"
    /\ UNCHANGED <<pollerObs, storeVars, frigateVars, phase, exportTasks, statusWrites>>
    /\ UNCHANGED restVars

\* mutant of StartHandlerResult: a failed recording-enable call raises
StartHandlerResult_RaisesOnFailure(enabled) == IF enabled THEN "ok" ELSE "raise"

\* _handle_session_start: how the handler ends, given what set_recording
\* returned: a failure is logged and the handler returns
StartHandlerResult(enabled) == "ok"

\* mutant of LoopPollStart: the start handler first joins the export threads
\* still running
LoopPollStart_JoinsExports ==
    /\ phase = "running" /\ loop_pc = "poll"
    /\ \A id \in SessionIds : exportTasks[id] \in {"none", "done"}
    /\ DoStartSession
    /\ \E rec_str \in RawRecording, outcome \in Delivery :
          /\ Transition(previous_state, Classify(rec_str)) = <<"on_session_start">>
          /\ DoSetRecording(active_session'.camera, TRUE, outcome)
          /\ PollOk(rec_str, StartHandlerResult(
                SetRecordingResult(mqtt_client, mqtt_connected, outcome).returned))
    /\ loop_pc' = "connect"
    /\ Handled("on_session_start")
    /\ UNCHANGED <<pollerObs, lastSetRecording, phase, exportTasks, statusWrites>>
    /\ UNCHANGED <<waitVars, exportLog, stopVars, raceVars, lastStopAll>>

\* _main_loop: self.poller.poll() calling _handle_session_start:
\* start_session(), then set_recording(session.camera, True)
LoopPollStart ==
    /\ phase = "running" /\ loop_pc = "poll"
    /\ DoStartSession
    /\ \E rec_str \in RawRecording, outcome \in Delivery :
          /\ Transition(previous_state, Classify(rec_str)) = <<"on_session_start">>
          /\ DoSetRecording(active_session'.camera, TRUE, outcome)
          /\ PollOk(rec_str, StartHandlerResult(
                SetRecordingResult(mqtt_client, mqtt_connected, outcome).returned))
    /\ loop_pc' = "connect"
    /\ Handled("on_session_start")
    /\ UNCHANGED <<pollerObs, lastSetRecording, phase, exportTasks, statusWrites>>
    /\ UNCHANGED <<waitVars, exportLog, stopVars, raceVars, lastStopAll>>

\* mutant of LoopPollEnd: with no active session the end handler switches
\* every camera off
LoopPollEnd_StopsAll ==
    /\ phase = "running" /\ loop_pc = "poll"
    /\ \E rec_str \in RawRecording :
          /\ Transition(previous_state, Classify(rec_str)) = <<"on_session_end">>
          /\ PollOk(rec_str, "ok")
    /\ IF active_session = NoSession
       THEN /\ DoCloseNothing
            /\ \E outcomes \in [CameraIds -> Delivery] :
                  recordings' = StoppedAll(recordings, outcomes)
            /\ UNCHANGED <<mqtt_client, mqtt_connected, exportTasks>>
       ELSE /\ DoEndSession
            /\ \E outcome \in Delivery :
                  DoSetRecording(active_session.camera, FALSE, outcome)
            /\ exportTasks' = [exportTasks EXCEPT ![active_session.session_id] = "request"]
    /\ loop_pc' = "connect"
    /\ Handled("on_session_end")
    /\ UNCHANGED <<pollerObs, lastSetRecording, phase, statusWrites>>
    /\ UNCHANGED <<waitVars, exportLog, stopVars, raceVars, lastStopAll>>

\* _main_loop: self.poller.poll() calling _handle_session_end: end_session(),
\* set_recording(session.camera, False), then the export thread is started;
\* with no active session the handler returns at once
LoopPollEnd ==
    /\ phase = "running" /\ loop_pc = "poll"
    /\ \E rec_str \in RawRecording :
          /\ Transition(previous_state, Classify(rec_str)) = <<"on_session_end">>
          /\ PollOk(rec_str, "ok")
    /\ IF active_session = NoSession
       THEN /\ DoCloseNothing
            /\ UNCHANGED <<mqtt_client, mqtt_connected, recordings, exportTasks>>
       ELSE /\ DoEndSession
            /\ \E outcome \in Delivery :
                  DoSetRecording(active_session.camera, FALSE, outcome)
            /\ exportTasks' = [exportTasks EXCEPT ![active_session.session_id] = "request"]
    /\ loop_pc' = "connect"
    /\ Handled("on_session_end")
    /\ UNCHANGED <<pollerObs, lastSetRecording, phase, statusWrites>>
    /\ UNCHANGED <<waitVars, exportLog, stopVars, raceVars, lastStopAll>>

\* update_export_status(status) called by the export thread of session id
ExportWrites(id, status) ==
    /\ DoUpdateExportStatus(status)
    /\ statusWrites' = IF history = << >> THEN statusWrites
                       ELSE statusWrites \cup {<<id, history[Len(history)].session_id>>}

\* what Frigate does with the POST of export_recording(): "id" it answers 200
\* with a body naming the export; "no_id" it answers 200 with a body that has
\* neither "id" nor "name"; "unreachable" requests raises ConnectionError;
\* "rejected" raise_for_status() raises HTTPError; "timeout" the request
\* raises another exception (no answer within 30 s, unreadable body)
ExportResponses == {"id", "no_id", "unreachable", "rejected", "timeout"}

\* export_recording(): the value returned.  Each except branch logs its own
\* message and returns None; data.get("id") or data.get("name") is None for
\* a body with neither.
ExportRecording(response) ==
    IF response = "id" THEN "export_id" ELSE "None"

\* what export_recording() can give _export_session: an export id, None, or
\* something in the flow raises; and wait_for_export(): the export, None, or
\* it raises
RequestOutcomes == {"export_id", "None", "raise"}
WaitOutcomes == {"export", "None", "raise"}

\* the flow of _export_session up to the test of export_id: "raise" an
\* exception escapes it, otherwise export_recording() met the response
RequestFlows == ExportResponses \cup {"raise"}
RequestOutcome(flow) == IF flow = "raise" THEN "raise" ELSE ExportRecording(flow)

\* the text of the exception caught by _export_session
FailureMessage == "error"

\* the status _export_session records after export_recording()
RequestStatus(outcome) ==
    IF outcome = "None" THEN "failed: export request rejected"
    ELSE "failed: " \o FailureMessage

\* mutant of WaitStatus: a timed-out wait is recorded as completed
WaitStatus_TimeoutCompletes(outcome) ==
    IF outcome = "raise" THEN "failed: " \o FailureMessage ELSE "completed"

\* the status _export_session records after wait_for_export()
WaitStatus(outcome) ==
    IF outcome = "export" THEN "completed"
    ELSE IF outcome = "None" THEN "failed: export timed out"
    ELSE "failed: " \o FailureMessage

Logged(log, id, request, wait, written) ==
    [log EXCEPT ![id] = [@ EXCEPT !.request = request, !.wait = wait,
                                  !.writes = @ \o written]]

\* _export_session: the buffer added on either side of the session, seconds
ExportBuffer == 2

\* int(x) of a time of the model's clock: the whole seconds, cut towards zero
IntSeconds(ticks) ==
    IF ticks >= 0 THEN ticks \div TicksPerSecond ELSE -((-ticks) \div TicksPerSecond)

\* mutant of ExportWindow: the session's own times are submitted
ExportWindow_NoBuffer(session) ==
    [start_ts |-> IntSeconds(session.start_time_utc),
     end_ts |-> IntSeconds(session.end_time_utc)]

\* _export_session and export_recording: start_ts = int(start_time_utc - 2),
\* end_ts = int(end_time_utc + 2), the window named in the export URL
ExportWindow(session) ==
    [start_ts |-> IntSeconds(session.start_time_utc - ExportBuffer * TicksPerSecond),
     end_ts |-> IntSeconds(session.end_time_utc + ExportBuffer * TicksPerSecond)]

\* the session the export thread of session id was started with
SessionOf(id) ==
    history[CHOOSE i \in DOMAIN history : history[i].session_id = id]

\* _export_session: export_recording() returns an export id, returns None, or
\* something in the flow raises
ExportRequest(id) ==
    /\ exportTasks[id] = "request"
    /\ \E flow \in RequestFlows :
          LET outcome == RequestOutcome(flow)
              met == [exportLog EXCEPT ![id].response = flow,
                         ![id].window = IF flow = "raise" THEN << >>
                                        ELSE ExportWindow(SessionOf(id))]
          IN  /\ exportTasks' = [exportTasks EXCEPT ![id] =
                                    IF outcome = "export_id" THEN "wait" ELSE "done"]
              /\ IF outcome = "export_id"
                 THEN /\ UNCHANGED <<storeVars, statusWrites>>
                      /\ exportLog' = Logged(met, id, outcome, "-", << >>)
                 ELSE /\ ExportWrites(id, RequestStatus(outcome))
                      /\ exportLog' = Logged(met, id, outcome, "-",
                                             <<RequestStatus(outcome)>>)
    /\ UNCHANGED <<pollerVars, pollerObs, frigateVars, phase, loop_pc>>
    /\ UNCHANGED <<waitVars, stopVars, raceVars, lastCall, lastStopAll>>

\* _export_session: wait_for_export() returns the export, returns None, or raises
ExportWait(id) ==
    /\ exportTasks[id] = "wait"
    /\ \E outcome \in WaitOutcomes :
          /\ ExportWrites(id, WaitStatus(outcome))
          /\ exportLog' = Logged(exportLog, id, exportLog[id].request, outcome,
                                 <<WaitStatus(outcome)>>)
    /\ exportTasks' = [exportTasks EXCEPT ![id] = "done"]
    /\ UNCHANGED <<pollerVars, pollerObs, frigateVars, phase, loop_pc>>
    /\ UNCHANGED <<waitVars, stopVars, raceVars, lastCall, lastStopAll>>

ExportThreadRequest == \E id \in SessionIds : ExportRequest(id)
ExportThreadWait == \E id \in SessionIds : ExportWait(id)

\* the API worker: POST and DELETE /api/session/metadata
ApiSetMetadata ==
    /\ phase = "running"
    /\ metaCalls < MaxApiCalls
    /\ \E body \in ApiBodies :
          /\ pending_metadata' = SetMetadata(pending_metadata, body.mouse_id,
                                   body.recording_type, body.user_name, body.chamber)
          /\ explicitly_set' = Noted(explicitly_set, body.mouse_id,
                                   body.recording_type, body.user_name)
    /\ metaCalls' = metaCalls + 1
    /\ UNCHANGED <<active_session, history, now, nextId, sessions_dir>>
    /\ UNCHANGED <<pollerVars, pollerObs, frigateVars, daemonVars>>
    /\ UNCHANGED restVars

ApiClearMetadata ==
    /\ phase = "running"
    /\ metaCalls < MaxApiCalls
    /\ ClearedMetadata
    /\ metaCalls' = metaCalls + 1
    /\ UNCHANGED <<active_session, history, now, nextId, sessions_dir>>
    /\ UNCHANGED <<pollerVars, pollerObs, frigateVars, daemonVars>>
    /\ UNCHANGED restVars

\* the transport's network thread: the broker connection drops and comes back
NetworkDisconnect ==
    /\ phase = "running"
    /\ mqtt_connected
    /\ DoOnDisconnect
    /\ UNCHANGED <<pollerVars, pollerObs, storeVars, lastSetRecording, daemonVars>>
    /\ UNCHANGED restVars

NetworkReconnect ==
    /\ phase = "running"
    /\ ~mqtt_connected
    /\ DoOnConnect(0)
    /\ UNCHANGED <<pollerVars, pollerObs, storeVars, lastSetRecording, daemonVars>>
    /\ UNCHANGED restVars

\* stop(): abort_session("daemon shutdown") and set_recording(camera, False) if
\* a session is active; stop_all_recording(); disconnect_mqtt()
DaemonStop ==
    /\ phase = "running"
    /\ phase' = "stopped"
    /\ \E own \in Delivery, outcomes \in [CameraIds -> Delivery] :
          IF active_session = NoSession
          THEN /\ UNCHANGED storeVars
               /\ recordings' = StoppedAll(recordings, outcomes)
          ELSE /\ DoAbortSession("daemon shutdown")
               /\ recordings' = StoppedAll(Published(recordings, active_session.camera,
                                                    FALSE, own), outcomes)
    /\ mqtt_connected' = IF mqtt_client THEN FALSE ELSE mqtt_connected
    /\ UNCHANGED <<pollerVars, pollerObs, mqtt_client, lastSetRecording, loop_pc,
                   exportTasks, statusWrites>>
    /\ UNCHANGED restVars

Next ==
    \/ DaemonStart
    \/ LoopConnect
    \/ LoopPollNoClient
    \/ LoopPollFail
    \/ LoopPollQuiet
    \/ LoopPollStart
    \/ LoopPollEnd
    \/ ExportThreadRequest
    \/ ExportThreadWait
    \/ ApiSetMetadata
    \/ ApiClearMetadata
    \/ NetworkDisconnect
    \/ NetworkReconnect
    \/ DaemonStop

Spec == InitAll /\ [][Next]_vars

-----------------------------------------------------------------------------
(* SpecExport: the edge handlers called in turn, and the export threads the  *)
(* end handler starts.                                                       *)

\* _handle_session_start: start_session(), set_recording(session.camera, True)
HandleSessionStart ==
    /\ DoStartSession
    /\ \E outcome \in Delivery :
          DoSetRecording(active_session'.camera, TRUE, outcome)
    /\ UNCHANGED <<pollerVars, pollerObs, lastSetRecording, daemonVars, restVars>>

\* _handle_session_end: end_session(), set_recording(session.camera, False),
\* then the export thread is started
HandleSessionEnd ==
    /\ IF active_session = NoSession
       THEN /\ DoCloseNothing
            /\ UNCHANGED <<mqtt_client, mqtt_connected, recordings, exportTasks>>
       ELSE /\ DoEndSession
            /\ \E outcome \in Delivery :
                  DoSetRecording(active_session.camera, FALSE, outcome)
            /\ exportTasks' = [exportTasks EXCEPT ![active_session.session_id] = "request"]
    /\ UNCHANGED <<pollerVars, pollerObs, lastSetRecording, phase, loop_pc,
                   statusWrites, restVars>>

NextExport ==
    \/ HandleSessionStart
    \/ HandleSessionEnd
    \/ ExportThreadRequest
    \/ ExportThreadWait
    \/ StoreTick

SpecExport == InitAll /\ [][NextExport]_vars

-----------------------------------------------------------------------------
(* SpecShutdown: the daemon is started, its edge handlers are called in turn *)
(* while it runs and the broker connection comes and goes; then stop() is    *)
(* called, and called again.                                                 *)

\* stop(): self._running = False; self._shutdown_event.set(); if a session is
\* active, session = abort_session(reason="daemon shutdown")
StopAbort ==
    /\ stop_pc = "idle"
    /\ phase \in {"running", "stopped"}
    /\ stop_runs < MaxStops
    /\ stop_runs' = stop_runs + 1
    /\ phase' = "stopped"
    /\ IF active_session = NoSession
       THEN /\ UNCHANGED storeVars
            /\ stop_session' = NoSession
            /\ stop_pc' = "all_off"
            /\ UNCHANGED stopLog
       ELSE /\ DoAbortSession("daemon shutdown")
            /\ stop_session' = history'[Len(history')]
            /\ stop_pc' = "own_off"
            /\ stopLog' = Append(stopLog, "abort_session")
    /\ UNCHANGED <<pollerVars, pollerObs, frigateVars, loop_pc, exportTasks, statusWrites,
                   waitVars, exportLog, raceVars, lastCall, lastStopAll>>

\* stop(): if session: self.frigate.set_recording(session.camera, enabled=False)
StopOwnOff ==
    /\ stop_pc = "own_off"
    /\ \E outcome \in Delivery : DoSetRecording(stop_session.camera, FALSE, outcome)
    /\ stopLog' = Append(stopLog, "set_recording " \o stop_session.camera \o " OFF")
    /\ stop_pc' = "all_off"
    /\ UNCHANGED <<pollerVars, pollerObs, storeVars, lastSetRecording, daemonVars,
                   waitVars, exportLog, raceVars, lastCall, lastStopAll, stop_session, stop_runs>>

\* stop(): self.frigate.stop_all_recording()
StopAllOff ==
    /\ stop_pc = "all_off"
    /\ \E outcomes \in [CameraIds -> Delivery] :
          recordings' = StoppedAll(recordings, outcomes)
    /\ stopLog' = stopLog \o [i \in 1..Len(CameraOrder) |->
                                "set_recording " \o CameraOrder[i] \o " OFF"]
    /\ stop_pc' = "disconnect"
    /\ UNCHANGED <<pollerVars, pollerObs, storeVars, mqtt_client, mqtt_connected,
                   lastSetRecording, daemonVars, waitVars, exportLog, raceVars, lastCall, lastStopAll,
                   stop_session, stop_runs>>

\* stop(): self.frigate.disconnect_mqtt(); the call returns
StopDisconnect ==
    /\ stop_pc = "disconnect"
    /\ DoDisconnectMqtt
    /\ stopLog' = Append(stopLog, "disconnect_mqtt")
    /\ stop_pc' = "idle"
    /\ stop_session' = NoSession
    /\ UNCHANGED <<pollerVars, pollerObs, storeVars, lastSetRecording, daemonVars,
                   waitVars, exportLog, raceVars, lastCall, lastStopAll, stop_runs>>

RunningSessionStart == phase = "running" /\ HandleSessionStart
RunningSessionEnd == phase = "running" /\ HandleSessionEnd

NextShutdown ==
    \/ DaemonStart
    \/ RunningSessionStart
    \/ RunningSessionEnd
    \/ NetworkDisconnect
    \/ NetworkReconnect
    \/ StoreTick
    \/ StopAbort
    \/ StopOwnOff
    \/ StopAllOff
    \/ StopDisconnect

SpecShutdown == InitAll /\ [][NextShutdown]_vars

-----------------------------------------------------------------------------
(* SpecSessions: a SessionManager whose caller sets metadata, opens and      *)
(* closes sessions one call after the other while time passes; what each     *)
(* closing call returned is kept.                                            *)

allButSessions == <<pollerVars, pollerObs, frigateVars, daemonVars, waitVars, exportLog,
                    stopVars, raceVars, lastStopAll>>

\* the reason the daemon gives, which is also the default
AbortReasons == {"daemon shutdown"}

\* the value end_session / abort_session return: the record just appended, or None
ReturnedByClose == IF active_session = NoSession THEN NoSession
                   ELSE history'[Len(history')]

Called(op, reason, returned) ==
    lastCall' = [op |-> op, reason |-> reason, returned |-> returned,
                 flip |-> ~lastCall.flip]

SessionsSetMetadata ==
    /\ metaCalls < MaxApiCalls
    /\ \E body \in ApiBodies :
          /\ pending_metadata' = SetMetadata(pending_metadata, body.mouse_id,
                                   body.recording_type, body.user_name, body.chamber)
          /\ explicitly_set' = Noted(explicitly_set, body.mouse_id,
                                   body.recording_type, body.user_name)
    /\ metaCalls' = metaCalls + 1
    /\ Called("set_metadata", "-", NoSession)
    /\ UNCHANGED <<active_session, history, now, nextId, sessions_dir>>
    /\ UNCHANGED allButSessions

SessionsStart ==
    /\ DoStartSession
    /\ Called("start_session", "-", active_session')
    /\ UNCHANGED allButSessions

SessionsEnd ==
    /\ DoEndSession \/ DoCloseNothing
    /\ Called("end_session", "-", ReturnedByClose)
    /\ UNCHANGED allButSessions

SessionsAbort ==
    /\ \E reason \in AbortReasons :
          /\ DoAbortSession(reason) \/ DoCloseNothing
          /\ Called("abort_session", reason, ReturnedByClose)
    /\ UNCHANGED allButSessions

NextSessions ==
    \/ SessionsSetMetadata
    \/ SessionsStart
    \/ SessionsEnd
    \/ SessionsAbort
    \/ StoreTick

SpecSessions == InitAll /\ [][NextSessions]_vars

-----------------------------------------------------------------------------
(* SpecHistory: the same caller, who also calls update_export_status as the  *)
(* export threads do.  The clock stands still: update_export_status reads no *)
(* time stamp.                                                               *)

SessionsUpdateExportStatus ==
    /\ \E status \in ExportStatuses :
          /\ DoUpdateExportStatus(status)
          /\ Called("update_export_status", status, NoSession)
    /\ UNCHANGED allButSessions

NextHistory ==
    \/ SessionsSetMetadata
    \/ SessionsStart
    \/ SessionsEnd
    \/ SessionsAbort
    \/ SessionsUpdateExportStatus

SpecHistory == InitAll /\ [][NextHistory]_vars

-----------------------------------------------------------------------------
(* SpecRace: the poll loop thread runs start_session() and end_session() and *)
(* the API worker serves POST/DELETE /api/session/metadata and               *)
(* GET /api/session/current, one statement at a time.  No statement of       *)
(* either takes a lock.                                                      *)

allButStore == <<pollerVars, pollerObs, frigateVars, daemonVars, waitVars, exportLog,
                 stopVars, lastCall, lastStopAll>>

\* the object start_session's local meta refers to: self._pending_metadata
\* itself, or the object it was before clear_metadata() replaced it
MetaOf(local) == IF local.live THEN pending_metadata ELSE local.frozen

\* start_session: now_utc = time.time(); meta = self._pending_metadata;
\* camera_key = f"chamber_{meta.chamber}"
RaceStartBegin ==
    /\ store_pc = "idle"
    /\ nextId <= MaxSessions
    /\ store_local' = [NoLocal EXCEPT !.t = now, !.camera_chamber = pending_metadata.chamber]
    /\ store_pc' = "s_mouse"
    /\ UNCHANGED <<storeVars, api_pc, api_body, api_snapshot, committed, pendingSeen>>
    /\ UNCHANGED allButStore

\* start_session: the arguments of SessionRecord(...), evaluated in order
RaceStartRead ==
    /\ store_pc \in {"s_mouse", "s_type", "s_user", "s_chamber"}
    /\ store_local' =
          CASE store_pc = "s_mouse" ->
                 [store_local EXCEPT !.mouse_id = MetaOf(store_local).mouse_id]
            [] store_pc = "s_type" ->
                 [store_local EXCEPT !.recording_type = MetaOf(store_local).recording_type]
            [] store_pc = "s_user" ->
                 [store_local EXCEPT !.user_name = MetaOf(store_local).user_name]
            [] store_pc = "s_chamber" ->
                 [store_local EXCEPT !.chamber = MetaOf(store_local).chamber]
    /\ store_pc' = CASE store_pc = "s_mouse" -> "s_type"
                     [] store_pc = "s_type" -> "s_user"
                     [] store_pc = "s_user" -> "s_chamber"
                     [] store_pc = "s_chamber" -> "s_publish"
    /\ UNCHANGED <<storeVars, api_pc, api_body, api_snapshot, committed, pendingSeen>>
    /\ UNCHANGED allButStore

\* start_session: self._active_session = session; return
RaceStartPublish ==
    /\ store_pc = "s_publish"
    /\ active_session' = [NewSession(nextId, store_local.t, store_local)
                            EXCEPT !.camera = CameraOf(store_local.camera_chamber)]
    /\ nextId' = nextId + 1
    /\ committed' = committed \cup {active_session'}
    /\ store_pc' = "idle"
    /\ store_local' = NoLocal
    /\ UNCHANGED <<pending_metadata, history, now, metaCalls, explicitly_set, sessions_dir>>
    /\ UNCHANGED <<api_pc, api_body, api_snapshot, pendingSeen>>
    /\ UNCHANGED allButStore

\* end_session with a session active: session = self._active_session;
\* now_utc = time.time(); session.end_time_utc = now_utc
RaceEndBegin ==
    /\ store_pc = "idle"
    /\ active_session # NoSession
    /\ store_local' = [NoLocal EXCEPT !.t = now]
    /\ active_session' = [active_session EXCEPT !.end_time_utc = now]
    /\ committed' = committed \cup {Closed(active_session, now)}
    /\ store_pc' = "e_duration"
    /\ UNCHANGED <<pending_metadata, history, now, nextId, metaCalls, explicitly_set, sessions_dir>>
    /\ UNCHANGED <<api_pc, api_body, api_snapshot, pendingSeen>>
    /\ UNCHANGED allButStore

\* end_session: session.duration_seconds = ...; session.video_filename = ...
RaceEndStamp ==
    /\ store_pc \in {"e_duration", "e_filename"}
    /\ active_session' =
          IF store_pc = "e_duration"
          THEN [active_session EXCEPT
                  !.duration_seconds =
                      RoundedTenths(store_local.t - active_session.start_time_utc)]
          ELSE [active_session EXCEPT !.video_filename = GenerateFilename(active_session)]
    /\ store_pc' = IF store_pc = "e_duration" THEN "e_filename" ELSE "e_append"
    /\ UNCHANGED <<pending_metadata, history, now, nextId, metaCalls, explicitly_set, sessions_dir>>
    /\ UNCHANGED <<store_local, api_pc, api_body, api_snapshot, committed, pendingSeen>>
    /\ UNCHANGED allButStore

\* end_session: self._write_session_json(session); self._history.append(session)
RaceEndAppend ==
    /\ store_pc = "e_append"
    /\ sessions_dir' = Written(sessions_dir, active_session)
    /\ history' = Append(history, active_session)
    /\ store_pc' = "e_clear_slot"
    /\ UNCHANGED <<pending_metadata, active_session, now, nextId, metaCalls,
                   explicitly_set>>
    /\ UNCHANGED <<store_local, api_pc, api_body, api_snapshot, committed, pendingSeen>>
    /\ UNCHANGED allButStore

\* end_session: self._active_session = None
RaceEndClearSlot ==
    /\ store_pc = "e_clear_slot"
    /\ active_session' = NoSession
    /\ store_pc' = "e_clear_meta"
    /\ UNCHANGED <<pending_metadata, history, now, nextId, metaCalls, explicitly_set, sessions_dir>>
    /\ UNCHANGED <<store_local, api_pc, api_body, api_snapshot, committed, pendingSeen>>
    /\ UNCHANGED allButStore

\* end_session: self.clear_metadata(); return session
RaceEndClearMeta ==
    /\ store_pc = "e_clear_meta"
    /\ ClearedMetadata
    /\ pendingSeen' = pendingSeen \cup {DefaultMetadata}
    /\ store_pc' = "idle"
    /\ store_local' = NoLocal
    /\ UNCHANGED <<active_session, history, now, nextId, metaCalls, sessions_dir>>
    /\ UNCHANGED <<api_pc, api_body, api_snapshot, committed>>
    /\ UNCHANGED allButStore

\* POST /api/session/metadata: the body is validated and set_metadata is entered
RaceSetBegin ==
    /\ api_pc = "idle"
    /\ metaCalls < MaxApiCalls
    /\ \E body \in ApiBodies :
          /\ api_body' = body
          /\ explicitly_set' = Noted(explicitly_set, body.mouse_id, body.recording_type,
                                     body.user_name)
    /\ metaCalls' = metaCalls + 1
    /\ api_pc' = "set_mouse"
    /\ UNCHANGED <<pending_metadata, active_session, history, now, nextId, sessions_dir>>
    /\ UNCHANGED <<store_pc, store_local, api_snapshot, committed, pendingSeen>>
    /\ UNCHANGED allButStore

\* set_metadata: if <field> is not None: self._pending_metadata.<field> = <field>
RaceSetWrite ==
    /\ api_pc \in {"set_mouse", "set_type", "set_user", "set_chamber"}
    /\ pending_metadata' =
          CASE api_pc = "set_mouse" ->
                 SetMetadata(pending_metadata, api_body.mouse_id, None, None, NoChamber)
            [] api_pc = "set_type" ->
                 SetMetadata(pending_metadata, None, api_body.recording_type, None, NoChamber)
            [] api_pc = "set_user" ->
                 SetMetadata(pending_metadata, None, None, api_body.user_name, NoChamber)
            [] api_pc = "set_chamber" ->
                 SetMetadata(pending_metadata, None, None, None, api_body.chamber)
    /\ pendingSeen' = pendingSeen \cup {pending_metadata'}
    /\ api_pc' = CASE api_pc = "set_mouse" -> "set_type"
                   [] api_pc = "set_type" -> "set_user"
                   [] api_pc = "set_user" -> "set_chamber"
                   [] api_pc = "set_chamber" -> "idle"
    /\ api_body' = IF api_pc = "set_chamber" THEN NoBody ELSE api_body
    /\ UNCHANGED <<active_session, history, now, nextId, metaCalls, explicitly_set, sessions_dir>>
    /\ UNCHANGED <<store_pc, store_local, api_snapshot, committed>>
    /\ UNCHANGED allButStore

\* DELETE /api/session/metadata: self._pending_metadata = SessionMetadata().
\* A start_session under way keeps reading the object it took.
RaceClear ==
    /\ api_pc = "idle"
    /\ metaCalls < MaxApiCalls
    /\ metaCalls' = metaCalls + 1
    /\ ClearedMetadata
    /\ pendingSeen' = pendingSeen \cup {DefaultMetadata}
    /\ store_local' =
          IF store_pc \in {"s_mouse", "s_type", "s_user", "s_chamber"} /\ store_local.live
          THEN [store_local EXCEPT !.live = FALSE, !.frozen = pending_metadata]
          ELSE store_local
    /\ UNCHANGED <<active_session, history, now, nextId, sessions_dir>>
    /\ UNCHANGED <<store_pc, api_pc, api_body, api_snapshot, committed>>
    /\ UNCHANGED allButStore

\* GET /api/session/current: if _session_manager.has_active_session
RaceReadBegin ==
    /\ api_pc = "idle"
    /\ IF active_session = NoSession
       THEN /\ api_snapshot' = NoSession
            /\ UNCHANGED api_pc
       ELSE /\ api_pc' = "read_found"
            /\ UNCHANGED api_snapshot
    /\ UNCHANGED <<storeVars, store_pc, store_local, api_body, committed, pendingSeen>>
    /\ UNCHANGED allButStore

\* GET /api/session/current: session = _session_manager.active_session;
\* asdict(session), which raises on None
RaceReadFinish ==
    /\ api_pc = "read_found"
    /\ api_snapshot' = IF active_session = NoSession THEN ApiFailed ELSE active_session
    /\ api_pc' = "idle"
    /\ UNCHANGED <<storeVars, store_pc, store_local, api_body, committed, pendingSeen>>
    /\ UNCHANGED allButStore

\* time passes
RaceTick ==
    /\ Tick
    /\ UNCHANGED raceVars
    /\ UNCHANGED allButStore

NextRace ==
    \/ RaceStartBegin
    \/ RaceStartRead
    \/ RaceStartPublish
    \/ RaceEndBegin
    \/ RaceEndStamp
    \/ RaceEndAppend
    \/ RaceEndClearSlot
    \/ RaceEndClearMeta
    \/ RaceSetBegin
    \/ RaceSetWrite
    \/ RaceClear
    \/ RaceReadBegin
    \/ RaceReadFinish
    \/ RaceTick

SpecRace == InitAll /\ [][NextRace]_vars

-----------------------------------------------------------------------------
(* Claims about RadiensPoller, checked under SpecPoller *)

Failed(kind) == kind \in {"no_client", "query_fail", "parse_fail"}

\* C1: a poll fires an edge handler if and only if the previous successful
\* observation (the indicator the last successful status query returned)
\* differs from the current one and neither is Unknown; a failed observation
\* never changes what counts as the previous observation.
C1_EdgeIffObservationChanged ==
    lastPoll.kind # "none" =>
        /\ (lastPoll.calls # << >>) <=>
              /\ lastPoll.kind = "ok"
              /\ lastPoll.seen \in {ON, OFF}
              /\ lastPoll.cur \in {ON, OFF}
              /\ lastPoll.seen # lastPoll.cur
        /\ Failed(lastPoll.kind) => lastPoll.after.previous_state = lastPoll.prev

\* C2: a poll whose status query fails leaves _previous_state unchanged and
\* invokes no handler, so the poller fires the same edges, and ends in the
\* same _previous_state, as a poller given the same polls without the failed
\* ones and the reconnect attempts.
C2_FailedPollsChangeNoEdge ==
    /\ Failed(lastPoll.kind) =>
          /\ lastPoll.after.previous_state = lastPoll.prev
          /\ lastPoll.calls = << >>
    /\ shadowPrev = previous_state
    /\ shadowCalls = lastOkCalls

\* C2 witness: Off, fail, fail, On: the poll after two failed polls fires the start edge
C2_Witness ==
    /\ lastPoll.kind = "ok"
    /\ lastPoll.errsBefore >= 2
    /\ lastPoll.calls = <<"on_session_start">>

\* C3: in an error-free run of polls observing only On and Off, the start
\* handler is invoked exactly once at each Off->On step, the end handler
\* exactly once at each On->Off step, and no handler at On->On, Off->Off or
\* at the first observation.
C3_CleanRunEdges ==
    (cleanRun /\ lastPoll.kind = "ok") =>
        /\ (lastPoll.seen = OFF /\ lastPoll.cur = ON) =>
              lastPoll.calls = <<"on_session_start">>
        /\ (lastPoll.seen = ON /\ lastPoll.cur = OFF) =>
              lastPoll.calls = <<"on_session_end">>
        /\ (lastPoll.seen = lastPoll.cur \/ lastPoll.seen = "None") =>
              lastPoll.calls = << >>

\* C3 witness: an error-free run reaches an On->Off step that fired the end handler
C3_Witness ==
    /\ cleanRun
    /\ lastPoll.kind = "ok"
    /\ lastPoll.seen = ON /\ lastPoll.cur = OFF
    /\ lastPoll.calls = <<"on_session_end">>

\* C4: an exception raised by an edge handler during poll() propagates to the
\* caller of poll(); it is not returned as a status snapshot.
C4_HandlerExceptionPropagates ==
    lastPoll.hres = "raise" => lastPoll.returned = "exception"

\* C5: after every poll whose status query succeeded and was classified,
\* _previous_state is the classified indicator, _connected is true and the
\* error count is zero, also when the handler raised; so a handler is only
\* invoked on a poll whose indicator differs from the previous query's.
C5_SuccessPathCommits ==
    lastPoll.kind = "ok" =>
        /\ lastPoll.after.previous_state = lastPoll.cur
        /\ lastPoll.after.connected
        /\ lastPoll.after.consecutive_errors = 0
        /\ lastPoll.calls # << >> => lastPoll.seen # lastPoll.cur

-----------------------------------------------------------------------------
(* Claims about SessionManager, checked under SpecStore and SpecMetadata *)

\* a step in which start_session() ran: it alone draws a uuid4()
StartSessionStep == nextId' = nextId + 1

InHistory(id) == \E i \in DOMAIN history : history[i].session_id = id

\* C6: start_session called while a session is active fails with a conflict
\* error and leaves the active session unchanged, so that every session that
\* was started is the active one or has been closed into the history.
C6_StartWhileActiveRejected ==
    [][(StartSessionStep /\ active_session # NoSession) =>
          /\ active_session' = active_session
          /\ \A id \in 1..nextId : active_session'.session_id = id \/ InHistory(id)']_vars

\* C7: start_session consumes the pending metadata: the session gets a copy
\* and the pending metadata is reset to defaults, so the next start_session
\* without a set_metadata in between yields a session with default metadata.
C7_StartConsumesMetadata ==
    [][StartSessionStep =>
          /\ active_session'.mouse_id = pending_metadata.mouse_id
          /\ active_session'.recording_type = pending_metadata.recording_type
          /\ active_session'.user_name = pending_metadata.user_name
          /\ active_session'.chamber = pending_metadata.chamber
          /\ is_default(pending_metadata')]_vars

NameFields == {"mouse_id", "recording_type", "user_name"}

-----------------------------------------------------------------------------
(* Claims about the daemon and the FrigateController *)

\* C9: the export thread started for a closed session changes the export
\* status of that session only, whatever sessions are closed meanwhile.
C9_ExportWritesOwnSession ==
    \A w \in statusWrites : w[1] = w[2]

\* C10: set_recording returns success only when the channel is connected and
\* the transport acknowledged the directive within the wait; disconnected, it
\* publishes nothing and returns failure; a timed-out acknowledgment is a failure.
C10_SuccessOnlyWhenAcked ==
    lastSetRecording.camera # "-" =>
        /\ lastSetRecording.returned =>
              (lastSetRecording.wasConnected /\ lastSetRecording.outcome = "acked")
        /\ ~lastSetRecording.wasConnected =>
              (~lastSetRecording.published /\ ~lastSetRecording.returned)
        /\ lastSetRecording.outcome = "timeout" => ~lastSetRecording.returned

-----------------------------------------------------------------------------
(* Claims about wait_for_export, checked under SpecWait *)

\* C11: wait_for_export returns a job record only for a job seen in a terminal
\* state; a job that is listed but still in progress keeps the wait going.
C11_ReturnsOnlyTerminalJob ==
    (wait_pc = "returned" /\ wait_result # TimedOut) => wait_result = "complete"

-----------------------------------------------------------------------------
(* Claims about the export thread, checked under SpecExport *)

\* the one status _export_session is to record, given what its calls gave it
ExpectedOutcome(log) ==
    IF log.request = "None" THEN "failed: export request rejected"
    ELSE IF log.request = "raise" THEN "failed: " \o FailureMessage
    ELSE IF log.wait = "None" THEN "failed: export timed out"
    ELSE IF log.wait = "export" THEN "completed"
    ELSE "failed: " \o FailureMessage

\* C13: _export_session never raises to its caller and ends having recorded
\* exactly one outcome: "failed: export request rejected" when export_recording
\* fails (wait_for_export is then not called), "failed: export timed out" when
\* wait_for_export times out, "completed" when it returns a job record, and
\* "failed: <message>" on an unexpected failure; until it ends it records none.
C13_ExportRecordsOneOutcome ==
    \A id \in SessionIds :
        /\ exportTasks[id] \in {"none", "request", "wait", "done"}
        /\ exportTasks[id] = "done" =>
              /\ exportLog[id].writes = <<ExpectedOutcome(exportLog[id])>>
              /\ exportLog[id].request # "export_id" => exportLog[id].wait = "-"
        /\ exportTasks[id] # "done" => exportLog[id].writes = << >>

\* C13 witness: every path of the export thread has been taken by some session
C13_Witness ==
    /\ \A id \in SessionIds : exportTasks[id] = "done"
    /\ exportLog[1].request = "export_id" /\ exportLog[1].wait = "None"
    /\ exportLog[2].request = "None"

-----------------------------------------------------------------------------
(* Claims about stop(), checked under SpecShutdown *)

ShutdownStatus == "aborted: daemon shutdown"

LastClosed == history[Len(history)]

\* stop() is the only caller of abort_session
AbortedByStop == history # << >> /\ LastClosed.export_status = ShutdownStatus

OffCall(camera_id) == "set_recording " \o camera_id \o " OFF"

\* the calls of a stop() that found a session active, and of one that did not
CallsWhenActive(camera_id) ==
    <<"abort_session", OffCall(camera_id), OffCall("pi_cam_0"), OffCall("pi_cam_1"),
      "disconnect_mqtt">>
CallsWhenIdle == <<OffCall("pi_cam_0"), OffCall("pi_cam_1"), "disconnect_mqtt">>

RECURSIVE Repeated(_, _)
Repeated(calls, n) == IF n = 0 THEN << >> ELSE calls \o Repeated(calls, n - 1)

\* C14: stop() with a session active closes it with abort_session("daemon
\* shutdown") (last in the history with the aborted status, active slot
\* empty), then sends OFF for that session's camera, then attempts OFF for
\* every configured camera, then disconnects the command transport; a second
\* stop() makes only the last two kinds of call, appends nothing to the
\* history and changes no session.
C14_ShutdownSequence ==
    /\ [](stop_pc = "own_off" =>
            /\ active_session = NoSession
            /\ AbortedByStop
            /\ LastClosed = stop_session
            /\ stopLog = <<"abort_session">>)
    /\ []((stop_pc = "idle" /\ stop_runs >= 1) =>
            /\ active_session = NoSession
            /\ mqtt_client => ~mqtt_connected
            /\ stopLog = (IF AbortedByStop THEN CallsWhenActive(LastClosed.camera)
                          ELSE CallsWhenIdle)
                         \o Repeated(CallsWhenIdle, stop_runs - 1))
    /\ [][(stop_pc = "idle" /\ stop_pc' # "idle" /\ active_session # NoSession) =>
            /\ stop_pc' = "own_off"
            /\ history' = Append(history, [Closed(active_session, now)
                                            EXCEPT !.export_status = ShutdownStatus])]_vars
    /\ [][stop_runs' >= 2 => (history' = history /\ active_session' = active_session)]_vars

\* C14 witness: stop() aborted the second session of the run, and a second
\* stop() has returned
C14_Witness ==
    /\ stop_pc = "idle"
    /\ stop_runs = 2
    /\ AbortedByStop
    /\ LastClosed.camera = "pi_cam_0"
    /\ Len(history) = 2

-----------------------------------------------------------------------------
(* Claims about concurrent use of the store, checked under SpecRace *)

MetadataOf(session) ==
    [mouse_id |-> session.mouse_id, recording_type |-> session.recording_type,
     user_name |-> session.user_name, chamber |-> session.chamber]

\* C15: a read of the store by the API worker concurrent with the poll loop
\* never observes a partially-updated session: every snapshot it returns is
\* the session as it stood before or after a whole start_session or
\* end_session call, and a read that found a session active does not then
\* find the slot empty within the same request.
C15_ReadsSeeWholeCalls ==
    /\ api_snapshot # ApiFailed
    /\ api_snapshot \notin {NotAsked, NoSession} => api_snapshot \in committed

\* C16: the metadata a session carries is the pending metadata as it stood at
\* one instant: a set_metadata or clear_metadata call concurrent with
\* start_session never yields a session mixing field values from before and
\* after it; and a started session keeps the metadata it started with.
C16_SessionMetadataFromOneInstant ==
    /\ [](active_session # NoSession => MetadataOf(active_session) \in pendingSeen)
    /\ [][(active_session # NoSession /\ active_session' # NoSession
              /\ active_session'.session_id = active_session.session_id)
            => MetadataOf(active_session') = MetadataOf(active_session)]_vars

-----------------------------------------------------------------------------
(* Claims about end_session and abort_session, checked under SpecSessions *)

\* a step that is a call of op
CallOf(op) == lastCall'.flip # lastCall.flip /\ lastCall'.op = op

\* the fields a closing call leaves as start_session wrote them
KeptFields == {"session_id", "start_time_utc", "mouse_id", "recording_type", "user_name",
               "chamber", "camera", "nas_transfer_status"}

\* the closing both end_session and abort_session are to perform, seen from a
\* step: the returned record r is the active session with its end time
\* stamped and a filename derived, it is the new last history entry, the
\* active slot is empty and the pending metadata is back to defaults
ClosedAs(r) ==
    /\ \A f \in KeptFields : r[f] = active_session[f]
    /\ r.end_time_utc = now
    /\ r.video_filename # ""
    /\ r.video_filename = GenerateFilename(active_session)
    /\ history' = Append(history, r)
    /\ active_session' = NoSession
    /\ pending_metadata' = DefaultMetadata

\* duration_seconds (held in tenths of a second) is exactly end - start
ExactDuration(r) ==
    r.duration_seconds * TicksPerSecond = 10 * (r.end_time_utc - r.start_time_utc)

\* duration_seconds is end - start rounded to 0.1 s: no further than 0.05 s from it
NearestTenth(r) ==
    LET off == 10 * (r.end_time_utc - r.start_time_utc)
                 - r.duration_seconds * TicksPerSecond
    IN  2 * off <= TicksPerSecond /\ -2 * off <= TicksPerSecond

\* C17 as stated: with a session active, end_session returns that session
\* with end time stamped, duration = end - start, a non-empty derived
\* filename and export status pending, appends it as the last history entry,
\* empties the active slot and resets the pending metadata.
C17_EndSessionCloses ==
    [][(CallOf("end_session") /\ active_session # NoSession) =>
          /\ ClosedAs(lastCall'.returned)
          /\ ExactDuration(lastCall'.returned)
          /\ lastCall'.returned.export_status = "pending"]_vars

\* C17 amended: the same, with the duration being end - start rounded to the
\* nearest 0.1 s.
C17_EndSessionClosesRounded ==
    [][(CallOf("end_session") /\ active_session # NoSession) =>
          /\ ClosedAs(lastCall'.returned)
          /\ NearestTenth(lastCall'.returned)
          /\ lastCall'.returned.export_status = "pending"]_vars

\* C17 witness: end_session closed a session that lasted 0.08 s, recorded as 0.1 s
C17_Witness ==
    /\ lastCall.op = "end_session"
    /\ lastCall.returned # NoSession
    /\ lastCall.returned.end_time_utc - lastCall.returned.start_time_utc = 2
    /\ lastCall.returned.duration_seconds = 1
    /\ lastCall.returned.mouse_id = "M 1"

\* C18: end_session with no active session returns the no-session signal
\* without raising and leaves the history, the active slot and the pending
\* metadata unchanged.
C18_EndWithoutSession ==
    [][(CallOf("end_session") /\ active_session = NoSession) =>
          /\ lastCall'.returned = NoSession
          /\ UNCHANGED <<history, active_session, pending_metadata>>]_vars

\* C18 witness: end_session returned None while metadata was pending and a
\* session was in the history
C18_Witness ==
    /\ lastCall.op = "end_session"
    /\ lastCall.returned = NoSession
    /\ pending_metadata # DefaultMetadata
    /\ history # << >>

\* the closing of abort_session(reason), but for the text of the status
AbortCloses(status) ==
    /\ ClosedAs(lastCall'.returned)
    /\ NearestTenth(lastCall'.returned)
    /\ lastCall'.returned.export_status = status

-----------------------------------------------------------------------------
(* Claims about stop_all_recording, checked under SpecFrigate *)

\* C20: stop_all_recording attempts set_recording(id, False) for every
\* configured camera, also after an earlier camera's publish failed, and
\* returns success if and only if every one of the calls succeeded.
C20_StopAllAttemptsEveryCamera ==
    lastStopAll.called =>
        /\ Len(lastStopAll.attempted) = Cardinality(CameraIds)
        /\ {lastStopAll.attempted[i].camera : i \in 1..Len(lastStopAll.attempted)} = CameraIds
        /\ \A i \in 1..Len(lastStopAll.attempted) :
              /\ lastStopAll.attempted[i].payload = "OFF"
              /\ lastStopAll.attempted[i].ok =
                    (lastStopAll.wasConnected
                       /\ lastStopAll.outcomes[lastStopAll.attempted[i].camera] # "error")
        /\ lastStopAll.returned <=>
              \A i \in 1..Len(lastStopAll.attempted) : lastStopAll.attempted[i].ok

\* C20 witness: the first camera's publish failed, the second camera was
\* switched off all the same, and the call returned failure
C20_Witness ==
    /\ lastStopAll.called
    /\ lastStopAll.wasConnected
    /\ lastStopAll.outcomes["pi_cam_0"] = "error"
    /\ lastStopAll.outcomes["pi_cam_1"] = "acked"
    /\ recordings["pi_cam_1"] = "OFF"
    /\ ~lastStopAll.returned

-----------------------------------------------------------------------------
(* Claims about export_recording, checked under SpecExport *)

\* C21: export_recording returns an export id or a failure signal, and the
\* failure signal it gives when Frigate is unreachable differs from the one
\* it gives when Frigate rejects the request.
C21_UnreachableDiffersFromRejected ==
    /\ \A id \in SessionIds : exportLog[id].request \in RequestOutcomes \cup {"-"}
    /\ \A a, b \in SessionIds :
          (exportLog[a].response = "unreachable" /\ exportLog[b].response = "rejected")
              => exportLog[a].request # exportLog[b].request

-----------------------------------------------------------------------------
(* Claims about the sidecar files, checked under SpecSessions *)

\* C22: every session closed by end_session or abort_session has a sidecar
\* file of its own: no two closed sessions share a file name, so a store
\* constructed afterwards on the same directory loads a history containing
\* every closed session with the export status last written for it.
C22_EveryClosedSessionIsLoaded ==
    /\ \A i, j \in DOMAIN history :
          i # j => SidecarName(history[i]) # SidecarName(history[j])
    /\ \A i \in DOMAIN history : history[i] \in LoadHistory(sessions_dir)

-----------------------------------------------------------------------------
(* SpecEdges: the daemon is started and its poll loop runs, calling the edge *)
(* handlers from poll().                                                     *)

NextEdges ==
    \/ DaemonStart
    \/ LoopConnect
    \/ LoopPollNoClient
    \/ LoopPollFail
    \/ LoopPollQuiet
    \/ LoopPollStart
    \/ LoopPollEnd

SpecEdges == InitAll /\ [][NextEdges]_vars

-----------------------------------------------------------------------------
(* SpecLoop: the same with an instrument whose status query answers every    *)
(* poll, and the export threads the end handler started running beside the   *)
(* loop.                                                                     *)

NextLoop ==
    \/ DaemonStart
    \/ LoopConnect
    \/ LoopPollNoClient
    \/ LoopPollQuiet
    \/ LoopPollStart
    \/ LoopPollEnd
    \/ ExportThreadRequest
    \/ ExportThreadWait

SpecLoop == InitAll /\ [][NextLoop]_vars


-----------------------------------------------------------------------------
(* Claims about the poll loop and the edge handlers, checked under SpecLoop  *)
(* (C23) and SpecEdges                                                       *)

\* an export thread is inside wait_for_export()
ExportWaiting == \E id \in SessionIds : exportTasks[id] = "wait"

\* a step in which an edge handler opened or closed a session
EdgeHandled == nextId' # nextId \/ Len(history') # Len(history)

\* C23: while the export thread of a closed session is waiting on its export
\* job the poll loop keeps polling: its next step can be taken, an Off->On
\* observation opens the next session and an On->Off observation closes it,
\* and neither handler waits for the export, which is still waiting when the
\* handler has returned.
C23_SlowExportBlocksNoEdge ==
    /\ []((ExportWaiting /\ phase = "running" /\ loop_pc = "connect") => ENABLED LoopConnect)
    /\ []((ExportWaiting /\ phase = "running" /\ loop_pc = "poll" /\ client
             /\ previous_state = OFF /\ nextId <= MaxSessions) => ENABLED LoopPollStart)
    /\ []((ExportWaiting /\ phase = "running" /\ loop_pc = "poll" /\ client
             /\ previous_state = ON) => ENABLED LoopPollEnd)
    /\ [][EdgeHandled =>
            \A id \in SessionIds : exportTasks[id] = "wait" => exportTasks'[id] = "wait"]_vars

\* C23 witness: the second session was opened and closed while the export
\* thread of the first was still waiting
C23_Witness ==
    /\ exportTasks[1] = "wait"
    /\ Len(history) = 2
    /\ history[2].session_id = 2
    /\ exportTasks[2] = "request"


-----------------------------------------------------------------------------
(* Claims about update_export_status and the history, checked under SpecHistory *)

\* C24: update_export_status(status) sets the export status of the last
\* history entry to status and leaves every other history entry, the active
\* session and the pending metadata unchanged; with an empty history it
\* changes nothing.
C24_UpdateWritesLastEntryOnly ==
    [][CallOf("update_export_status") =>
          /\ UNCHANGED <<active_session, pending_metadata>>
          /\ IF history = << >>
             THEN UNCHANGED <<history, sessions_dir>>
             ELSE history' = [history EXCEPT ![Len(history)].export_status =
                                                 lastCall'.reason]]_vars

\* C24 witness: update_export_status wrote the second of two history entries
\* while metadata was pending
C24_Witness ==
    /\ lastCall.op = "update_export_status"
    /\ lastCall.reason = "completed"
    /\ Len(history) = 2
    /\ history[1].export_status = "pending"
    /\ history[2].export_status = "completed"
    /\ pending_metadata # DefaultMetadata

\* the fields of a session record other than the two statuses
FrozenFields == {"session_id", "start_time_utc", "end_time_utc", "duration_seconds",
                 "mouse_id", "recording_type", "user_name", "chamber", "camera",
                 "video_filename"}

\* C25: once a session is in the history it stays at its place and none of
\* its fields other than export status and transfer status changes again;
\* the export status changes only for the entry that is the last one.
C25_HistoryEntriesFrozen ==
    [][\A i \in DOMAIN history :
          /\ i \in DOMAIN history'
          /\ \A f \in FrozenFields : history'[i][f] = history[i][f]
          /\ history'[i].export_status # history[i].export_status =>
                (i = Len(history) /\ i = Len(history'))]_vars

\* C25 witness: the first of two history entries kept its status while the
\* second one's was updated, after the first one's had been updated in its time
C25_Witness ==
    /\ lastCall.op = "update_export_status"
    /\ Len(history) = 2
    /\ history[1].export_status = "failed: export timed out"
    /\ history[2].export_status = "completed"
    /\ history[1].mouse_id = "M 1"


\* the recording-enable call of the start handler did not switch the
\* session's camera on
EnableFailed == ~mqtt_connected \/ recordings'[active_session'.camera] # "ON"

\* C26: when the recording-enable call of _handle_session_start fails, the
\* edge handling still completes: the session start_session opened is the
\* active session, poll() takes its success path (connected, error count
\* zero, a connected snapshot returned), _previous_state advances to On and
\* the loop goes on to its next round.
C26_FailedEnableKeepsSession ==
    [][(StartSessionStep /\ EnableFailed) =>
          /\ active_session' = NewSession(nextId, now, pending_metadata)
          /\ previous_state' = ON
          /\ connected'
          /\ consecutive_errors' = 0
          /\ phase' = "running"
          /\ loop_pc' = "connect"]_vars

\* C26 witness: the second session is active, its camera was never switched
\* on, and the poller has moved on to On
C26_Witness ==
    /\ phase = "running"
    /\ mqtt_connected
    /\ active_session # NoSession
    /\ active_session.session_id = 2
    /\ recordings[active_session.camera] # "ON"
    /\ previous_state = ON
    /\ connected


\* a step in which poll() found the end edge: the poller goes from On to Off
EndEdgeStep == previous_state = ON /\ previous_state' = OFF

\* C27: an end edge that arrives while no session is active changes nothing
\* for the daemon: the history and the sidecar files are as they were, no
\* recording directive is published and no export thread is started.
C27_EndEdgeWithoutSession ==
    [][(EndEdgeStep /\ active_session = NoSession) =>
          /\ UNCHANGED <<history, sessions_dir, active_session, pending_metadata>>
          /\ UNCHANGED <<recordings, mqtt_connected>>
          /\ UNCHANGED <<exportTasks, exportLog, statusWrites>>]_vars

\* C27 witness: the first observation was On, then Off: the end handler ran
\* before any session was ever started
C27_Witness ==
    /\ lastCall.op = "on_session_end"
    /\ previous_state = OFF
    /\ nextId = 1
    /\ history = << >>
    /\ \A id \in SessionIds : exportTasks[id] = "none"

\* C28: start and end edges alternate: whatever the polls observe (On, Off,
\* Unknown) and whichever of them fail, on_session_start is never called
\* while the session opened by the previous start edge is still active.
C28_StartOnlyWhenNoSession ==
    [][StartSessionStep => active_session = NoSession]_vars


-----------------------------------------------------------------------------
(* Claims about the export status of closed sessions, checked under        *)
(* SpecExport and Spec                                                       *)

\* the export status the history holds for session id
StatusOf(id) ==
    LET i == CHOOSE i \in DOMAIN history : history[i].session_id = id
    IN  history[i].export_status

\* C29: every session closed by end_session has an export status other than
\* "pending" once its export thread has run to its end, whatever sessions
\* were started and closed meanwhile.
C29_ExportEndsPending ==
    \A id \in SessionIds :
        (exportTasks[id] = "done" /\ InHistory(id)) => StatusOf(id) # "pending"

\* C30: once a session's export status is "aborted: <reason>" no later
\* update_export_status changes it, also not one made by the export thread of
\* an earlier session that is still running when stop() aborts the session.
C30_AbortedStatusStays ==
    [][\A i \in DOMAIN history :
          history[i].export_status = ShutdownStatus =>
              (i \in DOMAIN history' /\ history'[i].export_status = ShutdownStatus)]_vars


-----------------------------------------------------------------------------
(* SpecCameras: the daemon's poll loop and its API worker, with a broker     *)
(* that stays connected and acknowledges every publish.  The daemon is never *)
(* stopped.                                                                  *)

\* _handle_session_start, the ON directive acknowledged
CamerasPollStart ==
    /\ LoopPollStart
    /\ recordings' = Published(recordings, active_session'.camera, TRUE, "acked")

\* _handle_session_end, the OFF directive acknowledged
CamerasPollEnd ==
    /\ LoopPollEnd
    /\ active_session # NoSession =>
          recordings' = Published(recordings, active_session.camera, FALSE, "acked")

NextCameras ==
    \/ DaemonStart
    \/ LoopConnect
    \/ LoopPollNoClient
    \/ LoopPollFail
    \/ LoopPollQuiet
    \/ CamerasPollStart
    \/ CamerasPollEnd
    \/ ApiSetMetadata
    \/ ApiClearMetadata

SpecCameras == InitAll /\ [][NextCameras]_vars

\* C31: while the command channel is connected (under SpecCameras it never
\* drops and every publish is acknowledged), whenever no session is active
\* and the poll loop is between two polls, no camera's last published
\* directive is ON: every camera a session switched on has been switched off.
C31_NoCameraLeftOn ==
    (phase = "running" /\ mqtt_connected /\ active_session = NoSession) =>
        \A c \in DOMAIN recordings : recordings[c] # "ON"


-----------------------------------------------------------------------------
(* SpecSignal: the main thread runs the edge handlers one statement at a    *)
(* time while time passes, and SIGTERM/SIGINT is delivered to it between two *)
(* statements: _signal_handler runs stop() to its end on the same thread,   *)
(* then the interrupted handler goes on.  Once stop() has run the loop       *)
(* starts no further handler.  A SessionRecord is an object: the slot, the   *)
(* history and the locals that refer to it see every assignment to it.       *)

allButSignal == <<pollerVars, pollerObs, lastSetRecording, loop_pc, statusWrites, waitVars,
                  exportLog, stopVars, api_pc, api_body, api_snapshot, committed,
                  pendingSeen, lastCall, lastStopAll>>

\* a reference to the object obj was assigned through, after the assignment
Alias(ref, obj) == IF ref.session_id = obj.session_id THEN obj ELSE ref

Aliases(refs, obj) == [i \in DOMAIN refs |-> Alias(refs[i], obj)]

\* start_session: now_utc = time.time(); meta = self._pending_metadata;
\* session = SessionRecord(...)
SignalStartBuild ==
    /\ phase = "running" /\ store_pc = "idle"
    /\ nextId <= MaxSessions
    /\ store_local' = [NoLocal EXCEPT !.t = now,
                          !.session = NewSession(nextId, now, pending_metadata)]
    /\ nextId' = nextId + 1
    /\ store_pc' = "s_assign"
    /\ UNCHANGED <<pending_metadata, active_session, history, sessions_dir, now,
                   metaCalls, explicitly_set>>
    /\ UNCHANGED <<frigateVars, phase, exportTasks>>
    /\ UNCHANGED allButSignal

\* start_session: self._active_session = session; return session
SignalStartAssign ==
    /\ store_pc = "s_assign"
    /\ active_session' = store_local.session
    /\ store_pc' = "h_on"
    /\ UNCHANGED <<pending_metadata, history, sessions_dir, now, nextId, metaCalls,
                   explicitly_set, store_local>>
    /\ UNCHANGED <<frigateVars, phase, exportTasks>>
    /\ UNCHANGED allButSignal

\* _handle_session_start: self.frigate.set_recording(session.camera, enabled=True)
SignalStartOn ==
    /\ store_pc = "h_on"
    /\ \E outcome \in Delivery : DoSetRecording(store_local.session.camera, TRUE, outcome)
    /\ store_pc' = "idle"
    /\ store_local' = NoLocal
    /\ UNCHANGED <<storeVars, phase, exportTasks>>
    /\ UNCHANGED allButSignal

\* end_session with a session active: session = self._active_session;
\* now_utc = time.time()
SignalEndBegin ==
    /\ phase = "running" /\ store_pc = "idle"
    /\ active_session # NoSession
    /\ store_local' = [NoLocal EXCEPT !.t = now, !.session = active_session]
    /\ store_pc' = "e_stamp"
    /\ UNCHANGED <<storeVars, frigateVars, phase, exportTasks>>
    /\ UNCHANGED allButSignal

\* end_session: session.end_time_utc = now_utc; session.duration_seconds = ...;
\* session.video_filename = self._generate_filename(session)
SignalEndStamp ==
    /\ store_pc = "e_stamp"
    /\ LET session == Closed(store_local.session, store_local.t)
       IN  /\ store_local' = [store_local EXCEPT !.session = session]
           /\ active_session' = Alias(active_session, session)
           /\ history' = Aliases(history, session)
    /\ store_pc' = "e_append"
    /\ UNCHANGED <<pending_metadata, sessions_dir, now, nextId, metaCalls, explicitly_set>>
    /\ UNCHANGED <<frigateVars, phase, exportTasks>>
    /\ UNCHANGED allButSignal

\* end_session: self._write_session_json(session); self._history.append(session)
SignalEndAppend ==
    /\ store_pc = "e_append"
    /\ sessions_dir' = Written(sessions_dir, store_local.session)
    /\ history' = Append(history, store_local.session)
    /\ store_pc' = "e_clear"
    /\ UNCHANGED <<pending_metadata, active_session, now, nextId, metaCalls,
                   explicitly_set, store_local>>
    /\ UNCHANGED <<frigateVars, phase, exportTasks>>
    /\ UNCHANGED allButSignal

\* end_session: self._active_session = None; self.clear_metadata(); return session
SignalEndClear ==
    /\ store_pc = "e_clear"
    /\ active_session' = NoSession
    /\ ClearedMetadata
    /\ store_pc' = "h_off"
    /\ UNCHANGED <<history, sessions_dir, now, nextId, metaCalls, store_local>>
    /\ UNCHANGED <<frigateVars, phase, exportTasks>>
    /\ UNCHANGED allButSignal

\* _handle_session_end: self.frigate.set_recording(session.camera, enabled=False);
\* export_thread.start()
SignalEndOff ==
    /\ store_pc = "h_off"
    /\ \E outcome \in Delivery : DoSetRecording(store_local.session.camera, FALSE, outcome)
    /\ exportTasks' = [exportTasks EXCEPT ![store_local.session.session_id] = "request"]
    /\ store_pc' = "idle"
    /\ store_local' = NoLocal
    /\ UNCHANGED <<storeVars, phase>>
    /\ UNCHANGED allButSignal

\* _signal_handler: self.stop(), wherever the main thread is.  abort_session
\* assigns to the object in the slot and appends it; set_recording(camera,
\* False); stop_all_recording(); disconnect_mqtt()
SignalStop ==
    /\ phase = "running"
    /\ phase' = "stopped"
    /\ \E own \in Delivery, outcomes \in [CameraIds -> Delivery] :
          IF active_session = NoSession
          THEN /\ UNCHANGED <<storeVars, store_local>>
               /\ recordings' = StoppedAll(recordings, outcomes)
          ELSE LET session == [Closed(active_session, now) EXCEPT
                                  !.export_status = "aborted: daemon shutdown"]
               IN  /\ store_local' = [store_local EXCEPT !.session = Alias(@, session)]
                   /\ sessions_dir' = Written(sessions_dir, session)
                   /\ history' = Append(Aliases(history, session), session)
                   /\ active_session' = NoSession
                   /\ ClearedMetadata
                   /\ UNCHANGED <<now, nextId, metaCalls>>
                   /\ recordings' = StoppedAll(Published(recordings, session.camera,
                                                         FALSE, own), outcomes)
    /\ mqtt_connected' = IF mqtt_client THEN FALSE ELSE mqtt_connected
    /\ UNCHANGED <<mqtt_client, store_pc, exportTasks>>
    /\ UNCHANGED allButSignal

NextSignal ==
    \/ DaemonStart
    \/ SignalStartBuild
    \/ SignalStartAssign
    \/ SignalStartOn
    \/ SignalEndBegin
    \/ SignalEndStamp
    \/ SignalEndAppend
    \/ SignalEndClear
    \/ SignalEndOff
    \/ SignalStop
    \/ StoreTick

SpecSignal == InitAll /\ [][NextSignal]_vars

\* C32: a session is in the history at most once, whichever statement of the
\* poll loop's end_session the shutdown signal interrupts to run stop() and
\* its abort_session.
C32_InHistoryAtMostOnce ==
    \A i, j \in DOMAIN history :
        history[i].session_id = history[j].session_id => i = j


\* C33: once stop() has run to its end no session is active and no ON
\* directive is published any more, whichever statement of the poll loop's
\* edge handler the shutdown signal interrupted.
C33_NothingAfterShutdown ==
    /\ [](phase = "stopped" => active_session = NoSession)
    /\ [][phase = "stopped" =>
             \A c \in DOMAIN recordings' :
                 recordings'[c] = "ON" => (c \in DOMAIN recordings /\ recordings[c] = "ON")]_vars


-----------------------------------------------------------------------------
(* SpecWindow: one session is opened at any instant of the clock and closed  *)
(* at any later one, and its export thread submits the export request.       *)

\* the clock of SpecWindow stops here (ticks)
MaxClock == 55

\* time passes
WindowTick ==
    /\ now < MaxClock
    /\ now' = now + 1
    /\ UNCHANGED <<pending_metadata, active_session, history, sessions_dir, nextId,
                   metaCalls, explicitly_set>>
    /\ UNCHANGED <<pollerVars, pollerObs, frigateVars, daemonVars, restVars>>

\* the first start edge
WindowSessionStart == nextId = 1 /\ HandleSessionStart

NextWindow ==
    \/ WindowSessionStart
    \/ HandleSessionEnd
    \/ ExportThreadRequest
    \/ ExportThreadWait
    \/ WindowTick

SpecWindow == InitAll /\ [][NextWindow]_vars

\* C34: the window submitted for a closed session covers the session: the
\* submitted start, int(start - 2), is not after the session's start and the
\* submitted end, int(end + 2), is not before its end, for every start and
\* end with 0 <= start <= end.
C34_WindowCoversSession ==
    \A id \in SessionIds :
        exportLog[id].window # << >> =>
            /\ exportLog[id].window.start_ts * TicksPerSecond <= SessionOf(id).start_time_utc
            /\ exportLog[id].window.end_ts * TicksPerSecond >= SessionOf(id).end_time_utc

\* a window was submitted for a session that started less than 2 s after the
\* epoch and off a whole second, so that start - 2 is negative and int() cuts
\* it upwards, and that ended off a whole second
C34_Witness ==
    \E id \in SessionIds :
        /\ exportLog[id].window # << >>
        /\ SessionOf(id).start_time_utc \in 1..(ExportBuffer * TicksPerSecond - 1)
        /\ SessionOf(id).start_time_utc % TicksPerSecond # 0
        /\ SessionOf(id).end_time_utc % TicksPerSecond # 0
        /\ exportLog[id].window.start_ts = 0

=============================================================================
